---- MODULE Spec2Model ----
(***************************************************************************)
(* A model of the walk-forward trading pipeline of microandlargecap:       *)
(* feature engineering (src/src/features.py), walk-forward evaluation      *)
(* (src/ml_backtest_walkforward.py, src/src/ml_model.py), trade-plan       *)
(* sizing (src/src/plan.py) and PnL reconciliation (src/src/pnl.py).       *)
(*                                                                         *)
(* Floating-point columns are modelled as integers: prices in whole price  *)
(* units, returns in fixed point (RetScale per unit).  A pandas NaN is the *)
(* record Nan; a defined number x is Num(x).                               *)
(***************************************************************************)
EXTENDS Integers, Sequences, FiniteSets, TLC

VARIABLES
    \* ---- PnL reconciler (src/src/pnl.py) ----
    perf,        \* out/performance.csv: [exists, rows]
    cache,       \* cache/<ticker>_ohlc.csv per ticker: [exists, bars]
    pnlCalls,    \* number of log_from_plan calls made so far
    lastPlan,    \* the plan file of the latest log_from_plan call
    repeated,    \* "no", or the latest call was given the same plan file as the call
                 \* before it and computed the "same" or "changed" out_rows
    lastRows,    \* out_rows computed by the latest call
    summary,     \* the terminal summary of the latest call
    pnlOutcome,  \* how the latest call ended
    \* ---- walk-forward evaluation ----
    wfVariant,   \* "refit": ml_backtest_walkforward.py; "pipeline": main.py with src/ml_model.py
    wfData,      \* the feature dataset: the set of its (ticker, date) rows
    wfPath,      \* the price path of each instrument
    wfPhase,     \* "start", "loop", "done" or "failed"
    wfModel,     \* the fitted model: its training rows and the step it was fit at
    wfStep,      \* index (in days) of the next cutoff to process
    wfTrace,     \* per processed cutoff: the cutoff and the model that scored its block
    wfScored,    \* the latest step's block probabilities and picks
    wfLogs,      \* logs
    wfAudit,     \* out/picks_history: the audit files written, in order
    wfLedger,    \* the persisted walk-forward ledger file: [exists, rows]
    wfStats,     \* the printed aggregate figures
    \* ---- plan generation (src/src/plan.py, src/src/execution.py) ----
    plVariant,   \* "plan": src/src/plan.py; "execution": src/src/execution.py
    plData,      \* the feature dataset given to generate_trade_plan: a set of rows
    plTopN,      \* topN
    plSentW,     \* sent_w, in percent
    plCapital,   \* capital of the last call, in price units
    plSent,      \* today's rows of out/news_sentiment.csv, per ticker
    plFiles,     \* out/trade_plan_<date>.csv per date: [exists, rows]
    plOut,       \* the plan of the latest call
    plOutcome,   \* how the latest call ended
    plChanged,   \* the latest call replaced an existing plan file by other content
    plCalls,     \* number of generate_trade_plan calls made so far
    plWarm,      \* what the warm-up of main.py cached: the date and the rows per ticker
    \* ---- feature engineering (src/src/features.py) ----
    ftA,         \* a bar series of one instrument
    ftB,         \* the same series with some of its later bars mutated
    ftPhase,     \* "build" while bars arrive, "done" once featurized
    ftOutA,      \* add_features(ftA)
    ftOutB,      \* add_features(ftB)
    \* ---- price series store (fetch_prices and its variants) ----
    fxVariant,   \* which implementation serves the series
    fxCache,     \* cache/<ticker>_ohlc.csv per ticker: [exists, frame]
    fxPhase,     \* build_dataset: "loop", "built", "exit" or "aborted"; else "calls"
    fxTodo,      \* build_dataset: the tickers still to fetch
    fxFrames,    \* build_dataset: frames
    fxRuns,      \* calls (or build_dataset runs) made so far
    fxLast,      \* the latest fetch call: what it read, asked and returned
    \* ---- EODHD client (_get_json of src/eodhd_allin.py) ----
    gjKey,       \* EODHD_API_KEY is set
    gjCache,     \* the cache file of the request: [state, data]
    gjPhase,     \* "idle", "trying", "sleeping", "returned" or "raised"
    gjLog,       \* the outcomes of the request attempts of the current call
    gjSleeps,    \* time.sleep calls made by the current call
    gjResult,    \* what the current call returned (0: nothing)
    gjCalls,     \* _get_json calls started so far
    \* ---- self-healing runner (src/src/agent.py) ----
    hlFiles,     \* per fix pattern, the state of its project file
    hlPhase,     \* position inside run_with_self_heal
    hlRuns,      \* the outcomes of the runs of the command, in order
    hlFixed,     \* the fix patterns applied by the current call
    hlResult,    \* the exit status returned (-1: none yet)
    hlCalls      \* run_with_self_heal calls started so far

pnlVars == <<perf, cache, pnlCalls, lastPlan, repeated, lastRows, summary, pnlOutcome>>

wfVars == <<wfVariant, wfData, wfPath, wfPhase, wfModel, wfStep, wfTrace, wfScored, wfLogs, wfAudit, wfLedger, wfStats>>

planVars == <<plVariant, plData, plTopN, plSentW, plCapital, plSent, plFiles, plOut, plOutcome, plChanged, plCalls, plWarm>>

featVars == <<ftA, ftB, ftPhase, ftOutA, ftOutB>>

fetchVars == <<fxVariant, fxCache, fxPhase, fxTodo, fxFrames, fxRuns, fxLast>>

getVars == <<gjKey, gjCache, gjPhase, gjLog, gjSleeps, gjResult, gjCalls>>

healVars == <<hlFiles, hlPhase, hlRuns, hlFixed, hlResult, hlCalls>>

vars == <<pnlVars, wfVars, planVars, featVars, fetchVars, getVars, healVars>>

----------------------------------------------------------------------------
(* Numbers and NaN *)

Nan == [nan |-> TRUE, v |-> 0]
Num(x) == [nan |-> FALSE, v |-> x]
IsNan(x) == x.nan

\* Instrument identifiers, ordered as the ticker strings are.
Tickers == {1, 2}

RetScale == 100

\* Sum of f[i] over i in 1..Len(f)
RECURSIVE SeqSum(_)
SeqSum(s) == IF s = <<>> THEN 0 ELSE Head(s) + SeqSum(Tail(s))

----------------------------------------------------------------------------
(* PnL reconciler: src/src/pnl.py *)

MaxCalls == 2

\* dt.date.today(): calendar dates are day numbers; a plan's reference date
\* is one of TradeDates and today is the latest of them.
TradeDates == {1, 2}
Today == CHOOSE d \in TradeDates : \A e \in TradeDates : e <= d
CacheDates == {d + 1 : d \in TradeDates}

BuyVals == {2}
CapVals == {10}
CloseVals == {2, 3}

\* A row of a trade_plan_<date>.csv, by the columns log_from_plan reads.
PlanRows == [Ticker : Tickers, Buy : BuyVals, Capital : CapVals]
PlanSeqs == [{1} -> PlanRows] \cup [{1, 2} -> PlanRows]

\* A plan file: name is the date in the file name (0: a name that does not
\* parse as a date); cols tells which price column the file has
\* ("BuyPrice", "Close" as written by src/src/execution.py, or "none").
PlanFiles == [name : {0} \cup TradeDates, cols : {"BuyPrice"}, rows : PlanSeqs]
BadPlanFiles == [name : {1}, cols : {"none"}, rows : [{1} -> PlanRows]]

NoPlan == [name |-> 0, cols |-> "none", rows |-> <<>>]

\* trade_date inferred from the file name, today when it does not parse.
PlanTradeDate(plan) == IF plan.name \in TradeDates THEN plan.name ELSE Today

\* exit_date = trade_date + 1 calendar day (exit_next_day = True).
PlanExitDate(plan) == PlanTradeDate(plan) + 1

\* need - set(plan.columns) after the Close -> BuyPrice rename.
PlanMissingCols(plan) == plan.cols \notin {"BuyPrice", "Close"}

\* A lookup that falls forward to the first bar dated d or later.
CloseOnOrAfter(t, d) ==
    IF ~cache[t].exists THEN Nan
    ELSE LET row == {b \in cache[t].bars : b.date >= d}
         IN IF row = {} THEN Nan
            ELSE Num((CHOOSE b \in row : \A c \in row : b.date <= c.date).close)

\* _close_on(ticker, d): NaN when the cache file is absent or has no row
\* dated d, else the close of that row.
CloseOn(t, d) ==
    IF ~cache[t].exists THEN Nan
    ELSE LET row == {b \in cache[t].bars : b.date = d}
         IN IF row = {} THEN Nan ELSE Num((CHOOSE b \in row : TRUE).close)

\* ret = sell / buy - 1, in fixed point.
RetOf(sell, buy) == ((sell * RetScale) \div buy) - RetScale

\* One element of out_rows.
OutRow(plan, r) ==
    LET sell == CloseOn(r.Ticker, PlanExitDate(plan))
        ret  == IF IsNan(sell) THEN Nan ELSE Num(RetOf(sell.v, r.Buy))
        pnl  == IF IsNan(sell) THEN Nan ELSE Num(ret.v * r.Capital)
    IN [TradeDate |-> PlanTradeDate(plan), ExitDate |-> PlanExitDate(plan),
        Ticker |-> r.Ticker, Buy |-> r.Buy, ExitClose |-> sell,
        Ret |-> ret, PnL |-> pnl, Capital |-> r.Capital]

OutRows(plan) == [i \in 1..Len(plan.rows) |-> OutRow(plan, plan.rows[i])]

\* to_csv writes a NaN as an empty cell; read_csv reads an empty cell as NaN.
ToCsvCell(x) == [blank |-> x.nan, num |-> x.v]
FromCsvCell(c) == IF c.blank THEN Nan ELSE Num(c.num)
WritePerfRow(e) ==
    [e EXCEPT !.ExitClose = ToCsvCell(@), !.Ret = ToCsvCell(@), !.PnL = ToCsvCell(@)]
ReadPerfRow(e) ==
    [e EXCEPT !.ExitClose = FromCsvCell(@), !.Ret = FromCsvCell(@), !.PnL = FromCsvCell(@)]
WritePerf(rows) == [i \in 1..Len(rows) |-> WritePerfRow(rows[i])]
ReadPerf(rows) == [i \in 1..Len(rows) |-> ReadPerfRow(rows[i])]

SameKey(a, b) == a.TradeDate = b.TradeDate /\ a.Ticker = b.Ticker

\* Indices kept by drop_duplicates(subset=[TradeDate, Ticker], keep="last").
KeptLast(rows) == {i \in 1..Len(rows) : \A j \in (i+1)..Len(rows) : ~SameKey(rows[i], rows[j])}

\* The elements of s at the indices in idx, in order.
RECURSIVE Pick(_, _, _)
Pick(s, idx, i) ==
    IF i > Len(s) THEN <<>>
    ELSE (IF i \in idx THEN <<s[i]>> ELSE <<>>) \o Pick(s, idx, i + 1)

\* keep="first" in place of keep="last".
KeptFirst(rows) == {i \in 1..Len(rows) : \A j \in 1..(i-1) : ~SameKey(rows[i], rows[j])}
DropDuplicatesFirst(rows) == Pick(rows, KeptFirst(rows), 1)

DropDuplicatesLast(rows) == Pick(rows, KeptLast(rows), 1)

\* A ledger write that keeps the new rows only.
NewPerfOverwrite(plan) == OutRows(plan)

\* The ledger frame that log_from_plan writes: the new rows alone when no
\* ledger file exists, else old rows, then new rows, de-duplicated.
NewPerf(plan) ==
    IF perf.exists
    THEN DropDuplicatesLast(ReadPerf(perf.rows) \o OutRows(plan))
    ELSE OutRows(plan)

\* The trade date's rows without the dropna(subset=["Ret"]).
ValidRowsNoDropna(rows, d) == SelectSeq(rows, LAMBDA e : e.TradeDate = d)

\* val = perf[perf.TradeDate == trade_date].dropna(subset=["Ret"])
ValidRows(rows, d) == SelectSeq(rows, LAMBDA e : e.TradeDate = d /\ ~IsNan(e.Ret))

RetCol(rows) == [i \in 1..Len(rows) |-> rows[i].Ret.v]
PnlCol(rows) == [i \in 1..Len(rows) |-> rows[i].PnL.v]
WinCol(rows) == [i \in 1..Len(rows) |-> IF rows[i].Ret.v > 0 THEN 1 ELSE 0]

NoSummary == [valid |-> FALSE, trades |-> 0, wins |-> 0, win |-> 0, avg |-> 0, tot |-> 0]

\* The terminal summary: Trades, Win%, AvgRet and TotalPnL over val, or the
\* "No valid closes" line when val is empty.
Summarize(rows, d) ==
    LET val == ValidRows(rows, d)
    IN IF val = <<>> THEN NoSummary
       ELSE [valid |-> TRUE, trades |-> Len(val), wins |-> SeqSum(WinCol(val)),
             win |-> (SeqSum(WinCol(val)) * 100) \div Len(val),
             avg |-> SeqSum(RetCol(val)) \div Len(val),
             tot |-> SeqSum(PnlCol(val))]

PnlIdle ==
    /\ perf = [exists |-> FALSE, rows |-> <<>>]
    /\ cache = [t \in Tickers |-> [exists |-> FALSE, bars |-> {}]]
    /\ pnlCalls = 0
    /\ lastPlan = NoPlan
    /\ repeated = "no"
    /\ lastRows = <<>>
    /\ summary = NoSummary
    /\ pnlOutcome = "none"

\* log_from_plan(plan_csv) on a plan whose columns are missing: ValueError,
\* nothing is written.
LogFromPlanBadColumns(plan) ==
    /\ pnlCalls < MaxCalls
    /\ PlanMissingCols(plan)
    /\ pnlCalls' = pnlCalls + 1
    /\ repeated' = "no"
    /\ lastPlan' = plan
    /\ lastRows' = <<>>
    /\ summary' = NoSummary
    /\ pnlOutcome' = "ValueError"
    /\ UNCHANGED <<perf, cache>>
    /\ UNCHANGED <<wfVars, planVars, featVars, fetchVars, getVars, healVars>>

\* log_from_plan(plan_csv): compute out_rows, upsert into the ledger file,
\* print the summary of the plan's trade date.
LogFromPlan(plan) ==
    /\ pnlCalls < MaxCalls
    /\ ~PlanMissingCols(plan)
    /\ perf' = [exists |-> TRUE, rows |-> WritePerf(NewPerf(plan))]
    /\ lastRows' = OutRows(plan)
    /\ summary' = Summarize(NewPerf(plan), PlanTradeDate(plan))
    /\ pnlCalls' = pnlCalls + 1
    /\ repeated' = IF plan # lastPlan THEN "no"
                    ELSE IF OutRows(plan) = lastRows THEN "same" ELSE "changed"
    /\ lastPlan' = plan
    /\ pnlOutcome' = "ok"
    /\ UNCHANGED cache
    /\ UNCHANGED <<wfVars, planVars, featVars, fetchVars, getVars, healVars>>

\* A price fetch stores a later bar in an instrument's cache file.
CacheAddBar(t, d, c) ==
    /\ \A b \in cache[t].bars : b.date < d
    /\ cache' = [cache EXCEPT ![t] = [exists |-> TRUE, bars |-> @.bars \cup {[date |-> d, close |-> c]}]]
    /\ UNCHANGED <<perf, pnlCalls, lastPlan, repeated, lastRows, summary, pnlOutcome>>
    /\ UNCHANGED <<wfVars, planVars, featVars, fetchVars, getVars, healVars>>

PnlNext ==
    \/ \E plan \in PlanFiles : LogFromPlan(plan)
    \/ \E plan \in BadPlanFiles : LogFromPlanBadColumns(plan)
    \/ \E t \in Tickers, d \in CacheDates, c \in CloseVals : CacheAddBar(t, d, c)

----------------------------------------------------------------------------
(* Walk-forward evaluation: src/ml_backtest_walkforward.py (walkforward,    *)
(* which re-fits at every cutoff) and main.py with src/src/ml_model.py     *)
(* (train_and_eval once, then walkforward_backtest with that model).       *)

WfDays == 2
WfTopK == 1

\* train_and_eval's own backtest_days default and the days it adds to it.
HoldoutDays == 30
HoldoutPad == 5

\* STOP_PCT and TP_PCT in percent, PER_TRADE in price units.
StopPct == 2
TpPct == 6
PerTrade == 300

\* Calendar dates (day numbers) on which an instrument may have a row.
WfDates == {1, 2, 40, 41}
ProbVals == {1, 2}

\* The price columns of the row of instrument t dated d: a rising path (a
\* small gain, then a take-profit move) or a falling one (flat, then a
\* stop-loss move).
WfPaths == {"up", "down"}
WfClose(t, d) ==
    IF wfPath[t] = "up" THEN (IF d = 1 THEN 100 ELSE IF d = 2 THEN 101 ELSE IF d = 40 THEN 108 ELSE 109)
    ELSE (IF d = 1 THEN 100 ELSE IF d = 2 THEN 100 ELSE 97)
WfLow(t, d) == WfClose(t, d) - 1
WfHigh(t, d) == WfClose(t, d) + 1

WfRows == [ticker : Tickers, date : WfDates]
Datasets == (SUBSET WfRows) \ {{}}

\* The elements of a set of integers as an ascending sequence (sorted()).
RECURSIVE Sorted(_)
Sorted(S) ==
    IF S = {} THEN <<>>
    ELSE LET m == CHOOSE x \in S : \A y \in S : x <= y IN <<m>> \o Sorted(S \ {m})

UniqueDates(data) == {r.date : r \in data}

\* seq[-n:]
LastN(seq, n) == IF Len(seq) <= n THEN seq ELSE SubSeq(seq, Len(seq) - n + 1, Len(seq))

\* days = sorted(df["date"].unique())[-(BACK_DAYS+1):]
DaysOf(data) == LastN(Sorted(UniqueDates(data)), WfDays + 1)

\* A sliding window in place of the expanding one: the cutoff's rows alone.
TrainCutoffOnly(data, cutoff) == {r \in data : r.date = cutoff}

\* train = df[df["date"] <= cutoff]
Train(data, cutoff) == {r \in data : r.date <= cutoff}

\* block = df[df["date"] == d]
Block(data, d) == {r \in data : r.date = d}

BlockTickers(data, d) == {r.ticker : r \in Block(data, d)}

\* The orders sort_values("prob", ascending=False) may leave the block in: the
\* sort key is prob alone and the default sort is not stable, so rows of
\* equal prob come in any order.
SortedByProb(T, prob) ==
    {o \in [1..Cardinality(T) -> T] :
        /\ \A i, j \in DOMAIN o : i # j => o[i] # o[j]
        /\ \A i, j \in DOMAIN o : i < j => prob[o[i]] >= prob[o[j]]}

\* seq.head(n)
HeadN(seq, n) == IF Len(seq) <= n THEN seq ELSE SubSeq(seq, 1, n)

\* The close-to-close return in fixed point.
Ret1d(close, closeNext) == ((closeNext * RetScale) \div close) - RetScale

\* pnl(row) of ml_backtest_walkforward.py: NaN on a join miss, else the stop
\* or take-profit return when the next bar touches it, else close to close.
RefitRet(data, t, d, nextd) ==
    IF [ticker |-> t, date |-> nextd] \notin data THEN Nan
    ELSE IF WfLow(t, nextd) * 100 <= WfClose(t, d) * (100 - StopPct)
         THEN Num((((100 - StopPct) * RetScale) \div 100) - RetScale)
    ELSE IF WfHigh(t, nextd) * 100 >= WfClose(t, d) * (100 + TpPct)
         THEN Num((((100 + TpPct) * RetScale) \div 100) - RetScale)
    ELSE Num(Ret1d(WfClose(t, d), WfClose(t, nextd)))

\* joined["Pnl$"] = ret1d * Qty * close, Qty = floor(PER_TRADE / close)
RefitPnl(t, d, ret) ==
    IF IsNan(ret) THEN Nan ELSE Num(ret.v * (PerTrade \div WfClose(t, d)) * WfClose(t, d))

\* ret1d of walkforward_backtest: the row of the same ticker dated d + 1
\* calendar day, NaN when there is none.
PipelineRet(data, t, d) ==
    IF [ticker |-> t, date |-> d + 1] \notin data THEN Nan
    ELSE Num(Ret1d(WfClose(t, d), WfClose(t, d + 1)))

NoModel == [fitted |-> FALSE, train |-> {}, fitAt |-> 0]

\* What model.fit(X, y) does: with rows it returns the fitted model; with no
\* rows the outcome is the library's, an exception or a model fitted on
\* nothing, and the code guards against neither.
FitOutcomes(train) == IF train = {} THEN {"raises", "model"} ELSE {"model"}

WfIdle ==
    /\ wfVariant = "none"
    /\ wfData = {}
    /\ wfPath = [t \in Tickers |-> "up"]
    /\ wfPhase = "idle"
    /\ wfModel = NoModel
    /\ wfStep = 0
    /\ wfTrace = <<>>
    /\ wfScored = [probs |-> <<>>, picks |-> <<>>]
    /\ wfLogs = <<>>
    /\ wfAudit = <<>>
    /\ wfLedger = [exists |-> FALSE, rows |-> <<>>]
    /\ wfStats = [printed |-> FALSE, trades |-> 0, win |-> Nan, avg |-> Nan]

WfStart ==
    /\ wfVariant \in {"refit", "pipeline"}
    /\ wfData \in Datasets
    /\ wfPath \in [Tickers -> WfPaths]
    /\ wfPhase = IF wfVariant = "refit" THEN "loop" ELSE "start"
    /\ wfModel = NoModel
    /\ wfStep = 1
    /\ wfTrace = <<>>
    /\ wfScored = [probs |-> <<>>, picks |-> <<>>]
    /\ wfLogs = <<>>
    /\ wfAudit = <<>>
    /\ wfLedger = [exists |-> FALSE, rows |-> <<>>]
    /\ wfStats = [printed |-> FALSE, trades |-> 0, win |-> Nan, avg |-> Nan]

\* The picks of a scored block: the first top_k of the sorted block.
PicksOf(order, prob) == [i \in 1..Len(HeadN(order, WfTopK)) |-> [ticker |-> order[i], prob |-> prob[order[i]]]]

\* One iteration of walkforward's loop (ml_backtest_walkforward.py): fit on
\* the rows up to the cutoff, score the cutoff's block, take the top picks,
\* join them to the next day of days and log them.
WalkforwardStep ==
    /\ wfVariant = "refit" /\ wfPhase = "loop"
    /\ wfStep < Len(DaysOf(wfData))
    /\ LET d == DaysOf(wfData)[wfStep]
           nextd == DaysOf(wfData)[wfStep + 1]
           train == Train(wfData, d)
           T == BlockTickers(wfData, d)
       IN IF train = {}
          THEN \* train_model returned None: predict_proba raises
               /\ wfPhase' = "failed"
               /\ UNCHANGED <<wfModel, wfStep, wfTrace, wfScored, wfLogs>>
          ELSE \E prob \in [T -> ProbVals] : \E order \in SortedByProb(T, prob) :
               LET picks == PicksOf(order, prob)
                   row(i) == LET ret == RefitRet(wfData, picks[i].ticker, d, nextd)
                             IN [date |-> d, ticker |-> picks[i].ticker, prob |-> picks[i].prob,
                                 ret1d |-> ret, pnl |-> RefitPnl(picks[i].ticker, d, ret)]
               IN /\ wfModel' = [fitted |-> TRUE, train |-> train, fitAt |-> wfStep]
                  /\ wfTrace' = Append(wfTrace, [cutoff |-> d, train |-> train, fitAt |-> wfStep, step |-> wfStep])
                  /\ wfScored' = [probs |-> prob, picks |-> picks]
                  /\ wfLogs' = wfLogs \o [i \in 1..Len(picks) |-> row(i)]
                  /\ wfStep' = wfStep + 1
                  /\ UNCHANGED wfPhase
    /\ UNCHANGED <<wfVariant, wfData, wfPath, wfAudit, wfLedger, wfStats>>
    /\ UNCHANGED <<pnlVars, planVars, featVars, fetchVars, getVars, healVars>>

Ret1dCol(rows) == [i \in 1..Len(rows) |-> rows[i].ret1d.v]
PosCol(rows) == [i \in 1..Len(rows) |-> IF ~IsNan(rows[i].ret1d) /\ rows[i].ret1d.v > 0 THEN 1 ELSE 0]

\* dropna(subset=["ret1d"])
DropNaRet(rows) == SelectSeq(rows, LAMBDA r : ~IsNan(r.ret1d))

\* Series.mean(): NaN are skipped; NaN when nothing is left.
MeanRet(rows) ==
    LET def == DropNaRet(rows)
    IN IF def = <<>> THEN Nan ELSE Num(SeqSum(Ret1dCol(def)) \div Len(def))

\* (bt["ret1d"] > 0).mean(): the mean of a boolean column over every row of
\* bt (NaN > 0 is False); NaN when bt has no row.
WinRate(rows) ==
    IF rows = <<>> THEN Nan ELSE Num((SeqSum(PosCol(rows)) * RetScale) \div Len(rows))

\* The end of walkforward: the logs are written as they are; Win% and AvgRet
\* are printed when there is a row.
WalkforwardFinish ==
    /\ wfVariant = "refit" /\ wfPhase = "loop"
    /\ wfStep >= Len(DaysOf(wfData))
    /\ wfLedger' = [exists |-> TRUE, rows |-> wfLogs]
    /\ wfStats' = IF wfLogs = <<>> THEN wfStats
                  ELSE [printed |-> TRUE, trades |-> Len(wfLogs), win |-> WinRate(wfLogs), avg |-> MeanRet(wfLogs)]
    /\ wfPhase' = "done"
    /\ UNCHANGED <<wfVariant, wfData, wfPath, wfModel, wfStep, wfTrace, wfScored, wfLogs, wfAudit>>
    /\ UNCHANGED <<pnlVars, planVars, featVars, fetchVars, getVars, healVars>>

MaxDate(data) == CHOOSE d \in UniqueDates(data) : \A e \in UniqueDates(data) : e <= d

\* train_and_eval(f) as main.py calls it: the model is fit once, on the rows
\* up to max date - (backtest_days + 5) days; fitting on no rows raises.
TrainAndEval ==
    /\ wfVariant = "pipeline" /\ wfPhase = "start"
    /\ LET train == Train(wfData, MaxDate(wfData) - (HoldoutDays + HoldoutPad))
       IN \E fit \in FitOutcomes(train) :
            IF fit = "raises"
            THEN wfPhase' = "failed" /\ UNCHANGED wfModel
            ELSE wfPhase' = "loop" /\ wfModel' = [fitted |-> TRUE, train |-> train, fitAt |-> 0]
    /\ UNCHANGED <<wfVariant, wfData, wfPath, wfStep, wfTrace, wfScored, wfLogs, wfAudit, wfLedger, wfStats>>
    /\ UNCHANGED <<pnlVars, planVars, featVars, fetchVars, getVars, healVars>>

\* One iteration of walkforward_backtest's loop (src/src/ml_model.py): score
\* the day's block with the model passed in, take the top picks, join them
\* to the rows dated the next calendar day, log them, write the audit file.
WalkforwardBacktestStep ==
    /\ wfVariant = "pipeline" /\ wfPhase = "loop"
    /\ wfStep < Len(DaysOf(wfData))
    /\ LET d == DaysOf(wfData)[wfStep]
           T == BlockTickers(wfData, d)
       IN \E prob \in [T -> ProbVals] : \E order \in SortedByProb(T, prob) :
            LET picks == PicksOf(order, prob)
                row(i) == [date |-> d, ticker |-> picks[i].ticker, prob |-> picks[i].prob,
                           ret1d |-> PipelineRet(wfData, picks[i].ticker, d), pnl |-> Nan]
            IN /\ wfTrace' = Append(wfTrace, [cutoff |-> d, train |-> wfModel.train, fitAt |-> wfModel.fitAt, step |-> wfStep])
               /\ wfScored' = [probs |-> prob, picks |-> picks]
               /\ wfLogs' = wfLogs \o [i \in 1..Len(picks) |-> row(i)]
               /\ wfAudit' = Append(wfAudit, [date |-> d, picks |-> picks])
               /\ wfStep' = wfStep + 1
    /\ UNCHANGED <<wfVariant, wfData, wfPath, wfPhase, wfModel, wfLedger, wfStats>>
    /\ UNCHANGED <<pnlVars, planVars, featVars, fetchVars, getVars, healVars>>

\* The end of walkforward_backtest: nothing is written when there are no
\* logs; else the rows with a NaN ret1d are dropped, Win% and the mean are
\* printed over what is left and that frame is written.
WalkforwardBacktestFinish ==
    /\ wfVariant = "pipeline" /\ wfPhase = "loop"
    /\ wfStep >= Len(DaysOf(wfData))
    /\ IF wfLogs = <<>>
       THEN UNCHANGED <<wfLedger, wfStats>>
       ELSE /\ wfLedger' = [exists |-> TRUE, rows |-> DropNaRet(wfLogs)]
            /\ wfStats' = [printed |-> TRUE, trades |-> Len(DropNaRet(wfLogs)),
                           win |-> WinRate(DropNaRet(wfLogs)), avg |-> MeanRet(DropNaRet(wfLogs))]
    /\ wfPhase' = "done"
    /\ UNCHANGED <<wfVariant, wfData, wfPath, wfModel, wfStep, wfTrace, wfScored, wfLogs, wfAudit>>
    /\ UNCHANGED <<pnlVars, planVars, featVars, fetchVars, getVars, healVars>>

WfNext ==
    \/ WalkforwardStep
    \/ WalkforwardFinish
    \/ TrainAndEval
    \/ WalkforwardBacktestStep
    \/ WalkforwardBacktestFinish

----------------------------------------------------------------------------
(* Plan generation: generate_trade_plan of src/src/plan.py (sentiment      *)
(* blend, volatility-scaled stops, sizing) and of src/src/execution.py     *)
(* (probability ranking and sizing only).  Prices are integers in units of *)
(* 1/PriceScale, probabilities and sentiment in percent.                   *)

MaxPlanCalls == 2

\* Stops and targets are rounded to 4 decimals, Capital to 2.
PriceScale == 10000
CentScale == 100

\* sent_w = 0.30, in percent.
SentW == 30

\* The sentiment weights a caller passes: none, the default, all.
SentWVals == {0, SentW, 100}

\* The caps of stop_pct, tp1_pct and tp2_pct and their base rates, per mille.
StopBase == 40
StopCap == 72
Tp1Base == 30
Tp1Cap == 48
Tp2Base == 60
Tp2Cap == 120

PlanDates == {1, 2}
PlanToday == CHOOSE d \in PlanDates : \A e \in PlanDates : e <= d

TopNVals == {0, 1, 2}
CapitalVals == {6 * PriceScale, 12 * PriceScale}

\* The last-day row of an instrument: a close of 0.0001, 2.0 or 7.0, the
\* model's probability for it, and its std20 column.
PlanBars == [close : {1, 2 * PriceScale, 7 * PriceScale},
             prob  : {0, 100},
             std20 : {Nan, Num(3 * PriceScale)}]

\* An instrument's rows: none, a row on the first date only, or rows on both dates.
StaleBar == [close |-> 2 * PriceScale, prob |-> 60, std20 |-> Nan]
PlanHistories == [kind : {"absent", "stale"}, bar : {StaleBar}] \cup [kind : {"fresh"}, bar : PlanBars]

\* The histories of ticker t: every one for the first ticker, those with the
\* middle close for the others.
PlanHistoriesOf(t) ==
    IF t = 1 THEN PlanHistories ELSE {h \in PlanHistories : h.bar.close = 2 * PriceScale}

PlanRowsOf(t, h) ==
    IF h.kind = "absent" THEN {}
    ELSE IF h.kind = "stale" THEN {[ticker |-> t, date |-> 1, bar |-> StaleBar]}
    ELSE {[ticker |-> t, date |-> 1, bar |-> StaleBar], [ticker |-> t, date |-> PlanToday, bar |-> h.bar]}

PlanDataOf(hist) == UNION {PlanRowsOf(t, hist[t]) : t \in Tickers}

\* A cell of news_sentiment.csv for today: no row, a number, or a blank (NaN).
SentAbsent == [kind |-> "absent", v |-> 0]
SentNum(x) == [kind |-> "num", v |-> x]
SentNan == [kind |-> "nan", v |-> 0]
SentCells == {SentAbsent, SentNum(-150), SentNan}

\* The cells of ticker t: every one for the first ticker, no row or an
\* out-of-range number for the others.
SentCellsOf(t) == IF t = 1 THEN SentCells ELSE {SentAbsent, SentNum(-150)}

\* What a live get_news_sentiment(t) returns: 0.0 without headlines or keys,
\* else the clamped score.
LiveVals == {0, 50}

\* _clamp01: max(lo, min(hi, float(v))); min(hi, nan) is hi, a value that
\* float() rejects becomes 0.
Clamp01(c) ==
    IF c.kind = "nan" THEN 100
    ELSE IF c.kind = "num" THEN (IF c.v > 100 THEN 100 ELSE IF c.v < -100 THEN -100 ELSE c.v)
    ELSE 0

\* sent_map: today's rows of news_sentiment.csv.
SentMap(csv) == {t \in Tickers : csv[t].kind # "absent"}

\* last_day = data["date"].max()
PlanLastDay(data) == CHOOSE d \in {r.date : r \in data} : \A r \in data : r.date <= d

\* block = data[data["date"] == last_day]
PlanBlock(data) == IF data = {} THEN {} ELSE {r \in data : r.date = PlanLastDay(data)}

BarOf(block, t) == (CHOOSE r \in block : r.ticker = t).bar

\* edge = (MLProb - 0.5) / 0.5, in percent
Edge(prob) == 2 * prob - 100

\* A blend that leaves the edge at full weight.
ScoreEdgeUnweighted(w, prob, sent) == 100 * Edge(prob) + w * sent

\* Score = (1 - sent_w) * edge + sent_w * Sentiment, in 1/10000
Score(w, prob, sent) == (100 - w) * Edge(prob) + w * sent

\* The orders sort_values(["Score","MLProb"], ascending=False) may leave the
\* block in: rows equal on both keys come in any order.
SortedByScore(T, score, prob) ==
    {o \in [1..Cardinality(T) -> T] :
        /\ \A i, j \in DOMAIN o : i # j => o[i] # o[j]
        /\ \A i, j \in DOMAIN o : i < j =>
              \/ score[o[i]] > score[o[j]]
              \/ score[o[i]] = score[o[j]] /\ prob[o[i]] >= prob[o[j]]}

\* np.round: to the nearest integer, halves to the even one (n >= 0, d > 0).
RoundDiv(n, d) ==
    LET q == n \div d
        r == n % d
    IN  IF 2 * r < d THEN q
        ELSE IF 2 * r > d THEN q + 1
        ELSE IF q % 2 = 0 THEN q ELSE q + 1

\* std20.median() over the picks whose std20 is defined; NaN when there is none.
Median(T, f) ==
    LET D == {t \in T : ~IsNan(f[t])}
        n == Cardinality(D)
        rank(t) == Cardinality({u \in D : f[u].v < f[t].v \/ (f[u].v = f[t].v /\ u < t)})
        at(k) == f[CHOOSE t \in D : rank(t) = k].v
    IN  IF n = 0 THEN Nan ELSE Num((at((n - 1) \div 2) + at(n \div 2)) \div 2)

\* std20.fillna(std20.median()).clip(lower=0); a NaN left over makes vol_k
\* NaN, which .fillna(0) turns into vol_k = 1.
StdFilled(T, f, t) ==
    LET m == Median(T, f)
        x == IF IsNan(f[t]) THEN m ELSE f[t]
    IN  IF IsNan(x) THEN 0 ELSE IF x.v < 0 THEN 0 ELSE x.v

\* close * pct where pct = min(base * vol_k, cap) and vol_k = 1 + s / close,
\* in 1/1000 of a price unit (the 1e-9 added to close is below the resolution).
PctOfClose(close, s, base, cap) ==
    IF base * (close + s) < cap * close THEN base * (close + s) ELSE cap * close

StopOf(close, s) == RoundDiv(1000 * close - PctOfClose(close, s, StopBase, StopCap), 1000)
Target1Of(close, s) == RoundDiv(1000 * close + PctOfClose(close, s, Tp1Base, Tp1Cap), 1000)
Target2Of(close, s) == RoundDiv(1000 * close + PctOfClose(close, s, Tp2Base, Tp2Cap), 1000)

Max(a, b) == IF a >= b THEN a ELSE b

\* per_trade = capital / max(1, topN); qty = max(1, floor(per_trade / close))
QtyOf(capital, topN, close) == Max(1, capital \div (Max(1, topN) * close))

\* Qty = floor((capital / topN) / close), topN > 0
ExecQtyOf(capital, topN, close) == capital \div (topN * close)

\* Capital = (Qty * close).round(2)
CapitalOf(qty, close) == RoundDiv(qty * close, PriceScale \div CentScale) * (PriceScale \div CentScale)

\* One row of the plan of plan.py.
Position(block, picks, sent, w, capital, topN, t) ==
    LET b == BarOf(block, t)
        std == [u \in picks |-> BarOf(block, u).std20]
        s == StdFilled(picks, std, t)
        q == QtyOf(capital, topN, b.close)
    IN  [Ticker |-> t, Close |-> b.close, Score |-> Score(w, b.prob, sent[t]), MLProb |-> b.prob,
         Sentiment |-> sent[t], BuyPrice |-> b.close,
         Stop |-> StopOf(b.close, s), Target1 |-> Target1Of(b.close, s),
         Target2 |-> Target2Of(b.close, s), Qty |-> q, Capital |-> CapitalOf(q, b.close)]

\* One row of the plan of execution.py.
ExecPosition(block, capital, topN, t) ==
    LET b == BarOf(block, t)
        q == ExecQtyOf(capital, topN, b.close)
    IN  [Ticker |-> t, Close |-> b.close, ProbUp_T1 |-> b.prob, BuyPrice |-> b.close,
         Qty |-> q, Capital |-> q * b.close]

NoFile == [exists |-> FALSE, rows |-> <<>>]

\* No warm-up was made.
NoWarm == [date |-> 0, vals |-> [t \in Tickers |-> SentAbsent]]

PlanIdle ==
    /\ plVariant = "none"
    /\ plData = {}
    /\ plTopN = 0
    /\ plSentW = 0
    /\ plCapital = 0
    /\ plSent = [t \in Tickers |-> SentAbsent]
    /\ plFiles = [d \in PlanDates |-> NoFile]
    /\ plOut = <<>>
    /\ plOutcome = "none"
    /\ plChanged = FALSE
    /\ plCalls = 0
    /\ plWarm = NoWarm

PlanStart ==
    /\ plVariant \in {"plan", "execution"}
    /\ \E hist \in {f \in [Tickers -> PlanHistories] : \A t \in Tickers : f[t] \in PlanHistoriesOf(t)} :
          plData = PlanDataOf(hist)
    /\ plTopN \in TopNVals
    /\ plSentW \in (IF plVariant = "plan" THEN SentWVals ELSE {SentW})
    /\ plCapital = 0
    /\ plSent \in {f \in [Tickers -> SentCells] :
                      \A t \in Tickers : f[t] \in (IF plVariant = "plan" THEN SentCellsOf(t) ELSE {SentAbsent})}
    /\ plFiles = [d \in PlanDates |-> NoFile]
    /\ plOut = <<>>
    /\ plOutcome = "none"
    /\ plChanged = FALSE
    /\ plCalls = 0
    /\ plWarm = NoWarm

\* Writing rows to the plan file of date d.
WritePlan(d, rows) ==
    /\ plFiles' = [plFiles EXCEPT ![d] = [exists |-> TRUE, rows |-> rows]]
    /\ plChanged' = (plFiles[d].exists /\ plFiles[d].rows # rows)

\* What the warm-up's get_news_sentiment scores for an instrument without a
\* row: a value no live fetch of the plan returns.
WarmVals == {-50}

\* day = pd.to_datetime(f["date"]).max().date()
WarmUpDay(data) == PlanLastDay(data)

\* Step 6 of main.py: get_news_sentiment(day_tickers, day) for the
\* instruments of the last trading day.  A row the cache file already has
\* for (day, t) is kept, else the score live[t] is added as a row of that
\* date.  The rows of today are the ones generate_trade_plan reads.  The
\* pipeline of main.py runs with one configured sentiment weight.
WarmSentiment(live) ==
    /\ plVariant = "plan"
    /\ plSentW = SentW
    /\ plCalls = 0
    /\ plWarm = NoWarm
    /\ plData # {}
    /\ LET day == WarmUpDay(plData)
           T == {r.ticker : r \in PlanBlock(plData)}
           have == IF day = PlanToday THEN plSent ELSE [t \in Tickers |-> SentAbsent]
           rows == [t \in Tickers |-> IF t \in T /\ have[t].kind = "absent"
                                      THEN SentNum(live[t]) ELSE have[t]]
       IN  /\ plWarm' = [date |-> day, vals |-> [t \in Tickers |-> IF t \in T THEN rows[t] ELSE SentAbsent]]
           /\ plSent' = IF day = PlanToday THEN rows ELSE plSent
    /\ UNCHANGED <<plVariant, plData, plTopN, plSentW, plCapital, plFiles, plOut, plOutcome, plChanged, plCalls>>
    /\ UNCHANGED <<pnlVars, wfVars, featVars, fetchVars, getVars, healVars>>

\* generate_trade_plan of plan.py, called with capital.  live[t] is what a
\* live sentiment fetch for t returns; it is asked for the block's instruments that have no row
\* of today in news_sentiment.csv, and get_news_sentiment then adds the row.
GenerateTradePlan(live, capital) ==
    /\ plVariant = "plan"
    /\ plCalls < MaxPlanCalls
    /\ plCalls' = plCalls + 1
    /\ LET block == PlanBlock(plData)
           T == {r.ticker : r \in block}
       IN  IF plData = {} \/ block = {}
           THEN /\ plOutcome' = "raised"
                /\ plOut' = <<>>
                /\ UNCHANGED <<plSent, plFiles, plChanged>>
           ELSE LET map == SentMap(plSent)
                    sent == [t \in T |-> IF t \in map THEN Clamp01(SentNum(Clamp01(plSent[t])))
                                         ELSE Clamp01(SentNum(live[t]))]
                    prob == [t \in T |-> BarOf(block, t).prob]
                    score == [t \in T |-> Score(plSentW, prob[t], sent[t])]
                IN  /\ plSent' = [t \in Tickers |-> IF t \in T /\ t \notin map
                                                    THEN SentNum(live[t]) ELSE plSent[t]]
                    /\ \E order \in SortedByScore(T, score, prob) :
                         LET head == HeadN(order, plTopN)
                             picks == {head[i] : i \in DOMAIN head}
                             out == [i \in DOMAIN head |->
                                       Position(block, picks, sent, plSentW, capital, plTopN, head[i])]
                         IN  IF head = <<>>
                             THEN \* block['date'].iloc[0] of an empty block: IndexError
                                  /\ plOutcome' = "raised_late"
                                  /\ plOut' = <<>>
                                  /\ UNCHANGED <<plFiles, plChanged>>
                             ELSE /\ plOutcome' = "ok"
                                  /\ plOut' = out
                                  /\ WritePlan(PlanLastDay(plData), out)
    /\ plCapital' = capital
    /\ UNCHANGED <<plVariant, plData, plTopN, plSentW, plWarm>>
    /\ UNCHANGED <<pnlVars, wfVars, featVars, fetchVars, getVars, healVars>>

\* What model.predict_proba(X) does: with rows it returns their
\* probabilities; with no rows the outcome is the library's, an exception or
\* an empty result.
PredictOutcomes(block) == IF block = {} THEN {"raises", "probs"} ELSE {"probs"}

\* generate_trade_plan of execution.py: no check precedes the scoring call;
\* topN = 0 raises at capital/topN, after the scoring; the file is named
\* after today.  plOutcome is "raised" for an exception of the entry checks,
\* "raised_scoring" for one of the scoring call, "raised_late" for a later one.
ExecutionGenerateTradePlan(capital) ==
    /\ plVariant = "execution"
    /\ plCalls < MaxPlanCalls
    /\ plCalls' = plCalls + 1
    /\ LET block == PlanBlock(plData)
           T == {r.ticker : r \in block}
           prob == [t \in T |-> BarOf(block, t).prob]
       IN  \E scored \in PredictOutcomes(block) :
           IF scored = "raises" \/ plTopN = 0
           THEN /\ plOutcome' = IF scored = "raises" THEN "raised_scoring" ELSE "raised_late"
                /\ plOut' = <<>>
                /\ UNCHANGED <<plFiles, plChanged>>
           ELSE \E order \in SortedByProb(T, prob) :
                  LET head == HeadN(order, plTopN)
                      out == [i \in DOMAIN head |-> ExecPosition(block, capital, plTopN, head[i])]
                  IN  /\ plOutcome' = "ok"
                      /\ plOut' = out
                      /\ WritePlan(PlanToday, out)
    /\ plCapital' = capital
    /\ UNCHANGED <<plVariant, plData, plTopN, plSentW, plSent, plWarm>>
    /\ UNCHANGED <<pnlVars, wfVars, featVars, fetchVars, getVars, healVars>>

PlanNext ==
    \/ \E l \in LiveVals, capital \in CapitalVals : GenerateTradePlan([t \in Tickers |-> l], capital)
    \/ \E capital \in CapitalVals : ExecutionGenerateTradePlan(capital)
    \/ \E l \in WarmVals : WarmSentiment([t \in Tickers |-> l])

----------------------------------------------------------------------------
(* Feature engineering: add_features of src/src/features.py, applied to    *)
(* the bar series of one instrument.  Two series are kept side by side:    *)
(* ftB is ftA with some of its later bars mutated.  Ratios and means are   *)
(* in fixed point, FeatScale per unit.                                     *)

MaxTail == 3
FeatScale == 100

\* pct_change(5), rolling(5), rolling(10), rolling(20), rolling(14)
Lag5 == 5
Win5 == 5
Win10 == 10
Win20 == 20
RsiWin == 14

\* A bar by kind: "lo" and "hi" have every field numeric, "noclose" has a
\* close that to_numeric coerces to NaN, "noopen" such an open.
BarKinds == {"lo", "hi", "noclose", "noopen"}
FeatBar(d, k) ==
    [date   |-> d,
     open   |-> IF k = "noopen" THEN Nan ELSE Num(10),
     high   |-> Num(13),
     low    |-> Num(9),
     close  |-> IF k = "noclose" THEN Nan ELSE IF k = "hi" THEN Num(12) ELSE Num(10),
     volume |-> IF k = "hi" THEN Num(7) ELSE Num(5)]

\* The mutation of a bar of each kind: another close, a close that is lost,
\* a close that is restored, an open that is restored with another close.
Mutated(k) == IF k = "lo" THEN "hi" ELSE IF k = "hi" THEN "noclose" ELSE IF k = "noclose" THEN "lo" ELSE "hi"

\* The first Win20 bars, all numeric, closes moving both ways.
WarmUp == [d \in 1..Win20 |-> FeatBar(d, IF d % 3 = 0 THEN "hi" ELSE "lo")]

\* p = p.dropna(subset=["close","volume"])
Clean(s) == SelectSeq(s, LAMBDA b : ~IsNan(b.close) /\ ~IsNan(b.volume))

CloseCol(p) == [i \in DOMAIN p |-> p[i].close]
VolumeCol(p) == [i \in DOMAIN p |-> p[i].volume]

\* col.pct_change(k), in fixed point
PctChange(col, k) ==
    [i \in DOMAIN col |->
        IF i <= k THEN Nan
        ELSE LET x == col[i]
                 prev == col[i - k]
             IN  IF IsNan(x) \/ IsNan(prev) THEN Nan
                 ELSE Num(((x.v * FeatScale) \div prev.v) - FeatScale)]

\* col.diff()
Diff(col) ==
    [i \in DOMAIN col |->
        IF i <= 1 THEN Nan
        ELSE LET x == col[i]
                 prev == col[i - 1]
             IN  IF IsNan(x) \/ IsNan(prev) THEN Nan ELSE Num(x.v - prev.v)]

\* clip(lower=0) and -clip(upper=0)
ClipUp(col) ==
    [i \in DOMAIN col |-> LET x == col[i] IN IF IsNan(x) THEN Nan ELSE Num(Max(x.v, 0))]
ClipDown(col) ==
    [i \in DOMAIN col |-> LET x == col[i] IN IF IsNan(x) THEN Nan ELSE Num(Max(0 - x.v, 0))]

\* A rolling(w) window ending at i is defined when it holds w numbers.
WindowOk(col, i, w) == i >= w /\ \A j \in (i - w + 1)..i : ~IsNan(col[j])
RECURSIVE SumOver(_, _, _)
SumOver(col, lo, hi) == IF lo > hi THEN 0 ELSE col[hi].v + SumOver(col, lo, hi - 1)
RECURSIVE SumSqOver(_, _, _)
SumSqOver(col, lo, hi) ==
    IF lo > hi THEN 0 ELSE LET x == col[hi].v IN x * x + SumSqOver(col, lo, hi - 1)
WindowSum(col, i, w) == SumOver(col, i - w + 1, i)
WindowSumSq(col, i, w) == SumSqOver(col, i - w + 1, i)

\* col.rolling(w).sum()
RollingSum(col, w) ==
    [i \in DOMAIN col |-> IF WindowOk(col, i, w) THEN Num(WindowSum(col, i, w)) ELSE Nan]

\* col.rolling(w).mean(), unit fixed-point units per unit of col
RollingMean(col, w, unit) ==
    [i \in DOMAIN col |->
        IF WindowOk(col, i, w) THEN Num((WindowSum(col, i, w) * unit) \div w) ELSE Nan]

\* The integer square root, by bisection.
RECURSIVE SqrtIn(_, _, _)
SqrtIn(x, lo, hi) ==
    IF lo >= hi THEN lo
    ELSE LET mid == (lo + hi + 1) \div 2
         IN  IF mid * mid <= x THEN SqrtIn(x, mid, hi) ELSE SqrtIn(x, lo, mid - 1)
ISqrt(x) == SqrtIn(x, 0, 46340)

\* col.rolling(w).std(): the sample standard deviation (ddof = 1)
RollingStd(col, w, unit) ==
    [i \in DOMAIN col |->
        IF WindowOk(col, i, w)
        THEN LET sum == WindowSum(col, i, w)
             IN  Num(ISqrt((unit * unit * (w * WindowSumSq(col, i, w) - sum * sum)) \div (w * (w - 1))))
        ELSE Nan]

\* rsi14 = 100 - 100/(1 + rs), rs = roll_up / (roll_down + 1e-9): that is
\* 100 * up / (up + down), and 0 when nothing moved up.
Rsi(col, w) ==
    LET up == RollingSum(ClipUp(Diff(col)), w)
        down == RollingSum(ClipDown(Diff(col)), w)
    IN  [i \in DOMAIN col |->
            LET u == up[i]
                d == down[i]
            IN  IF IsNan(u) \/ IsNan(d) THEN Nan
                ELSE IF u.v = 0 THEN Num(0)
                ELSE Num((100 * FeatScale * u.v) \div (u.v + d.v))]

\* A label that reads the close two bars ahead.
ShiftBackTwo(col) == [i \in DOMAIN col |-> IF i + 2 > Len(col) THEN Nan ELSE col[i + 2]]

\* col.shift(-1)
ShiftBack(col) == [i \in DOMAIN col |-> IF i + 1 > Len(col) THEN Nan ELSE col[i + 1]]

\* (next_close > close).astype(int): a comparison with NaN is False
Label(next, close) == IF ~IsNan(next) /\ ~IsNan(close) /\ next.v > close.v THEN 1 ELSE 0

\* The columns of the frame, and those among them that can hold a NaN (date
\* and y cannot).
Columns == {"date", "open", "high", "low", "close", "volume", "ret1", "ret5", "ma5", "ma10",
            "ma20", "std20", "vol20", "rsi14", "next_close", "y", "v20"}
NanColumns == Columns \ {"date", "y"}

\* Row i of the frame before the final dropna(), column by column.
FeatRow(p, i) ==
    LET c == CloseCol(p)
    IN  [f \in Columns |->
            CASE f = "date" -> p[i].date
              [] f = "open" -> p[i].open
              [] f = "high" -> p[i].high
              [] f = "low" -> p[i].low
              [] f = "close" -> p[i].close
              [] f = "volume" -> p[i].volume
              [] f = "ret1" -> PctChange(c, 1)[i]
              [] f = "ret5" -> PctChange(c, Lag5)[i]
              [] f = "ma5" -> RollingMean(c, Win5, FeatScale)[i]
              [] f = "ma10" -> RollingMean(c, Win10, FeatScale)[i]
              [] f = "ma20" -> RollingMean(c, Win20, FeatScale)[i]
              [] f = "std20" -> RollingStd(c, Win20, FeatScale)[i]
              [] f = "vol20" -> RollingStd(PctChange(c, 1), Win20, 1)[i]
              [] f = "rsi14" -> Rsi(c, RsiWin)[i]
              [] f = "next_close" -> ShiftBack(c)[i]
              [] f = "y" -> Label(ShiftBack(c)[i], c[i])
              [] f = "v20" -> RollingMean(VolumeCol(p), Win20, FeatScale)[i]]

\* The frame returned without the final dropna().
AddFeaturesKeepAll(s) ==
    LET p == Clean(s)
    IN  [i \in DOMAIN p |-> FeatRow(p, i)]

\* p.dropna().reset_index(drop=True)
AddFeatures(s) ==
    LET p == Clean(s)
        rows == [i \in DOMAIN p |-> FeatRow(p, i)]
    IN  SelectSeq(rows, LAMBDA r : \A f \in NanColumns : ~IsNan(r[f]))

FeatIdle ==
    /\ ftA = <<>>
    /\ ftB = <<>>
    /\ ftPhase = "idle"
    /\ ftOutA = <<>>
    /\ ftOutB = <<>>

FeatStart ==
    /\ ftA = WarmUp
    /\ ftB = WarmUp
    /\ ftPhase = "build"
    /\ ftOutA = <<>>
    /\ ftOutB = <<>>

\* The next bar arrives: ka is its kind in ftA, kb its kind in ftB (the same
\* bar or its mutation).
AppendBar(ka, kb) ==
    /\ ftPhase = "build"
    /\ Len(ftA) < Win20 + MaxTail
    /\ ftA' = Append(ftA, FeatBar(Len(ftA) + 1, ka))
    /\ ftB' = Append(ftB, FeatBar(Len(ftB) + 1, kb))
    /\ UNCHANGED <<ftPhase, ftOutA, ftOutB>>
    /\ UNCHANGED <<pnlVars, wfVars, planVars, fetchVars, getVars, healVars>>

\* add_features on each series.
Featurize ==
    /\ ftPhase = "build"
    /\ ftOutA' = AddFeatures(ftA)
    /\ ftOutB' = AddFeatures(ftB)
    /\ ftPhase' = "done"
    /\ UNCHANGED <<ftA, ftB>>
    /\ UNCHANGED <<pnlVars, wfVars, planVars, fetchVars, getVars, healVars>>

FeatNext ==
    \/ \E ka \in BarKinds : \E kb \in {ka, Mutated(ka)} : AppendBar(ka, kb)
    \/ Featurize

----------------------------------------------------------------------------
(* Price series store: fetch_prices of src/src/data_fetch.py with its      *)
(* caller build_dataset, fetch_prices of src/ml_daily_train_predict.py,    *)
(* load_cached_or_fetch of src/trading_project/plan_and_size.py,           *)
(* fetch_ohlcv of src/trading_project/trade_plan_full.py and fetch_ohlcv_ax*)
(* of src/trading_project/trade_plan_universe.py.  A frame is its schema   *)
(* and its rows; a row is a date, a close and an open (NaN when not         *)
(* numeric).                                                               *)

MaxFetchRuns == 2

\* MIN_ROWS, scaled to the short series of the model.
MinRows == 2

\* The staleness bound of load_cached_or_fetch, in days.
StaleDays == 3

BarDates == {8, 9}
FetchToday == (CHOOSE d \in BarDates : \A e \in BarDates : e <= d) + StaleDays

FxBar(d, c) == [date |-> d, close |-> c, open |-> Num(1)]

\* A bar whose open is not numeric.
FxBarNoOpen(d, c) == [date |-> d, close |-> c, open |-> Nan]

\* Row sequences: none, one old bar, two bars in order, two bars out of
\* order, two bars of one date, a bar whose close is not numeric, a bar
\* whose open is not numeric.
RowSeqs ==
    { <<>>,
      <<FxBar(8, Num(1))>>,
      <<FxBar(8, Num(1)), FxBar(9, Num(2))>>,
      <<FxBar(9, Num(2)), FxBar(8, Num(1))>>,
      <<FxBar(9, Num(1)), FxBar(9, Num(2))>>,
      <<FxBar(8, Num(1)), FxBar(9, Nan)>>,
      <<FxBar(8, Num(1)), FxBarNoOpen(9, Num(2))>> }

\* schema "ok": all of date, open, high, low, close, volume are columns;
\* "nocol": a price or volume column is missing; "nodate": no date column.
Frame(schema, rows) == [schema |-> schema, rows |-> rows]
NoFrame == Frame("none", <<>>)
Payloads ==
    {Frame("ok", r) : r \in RowSeqs}
        \cup {Frame("nocol", <<FxBar(9, Num(2))>>), Frame("nodate", <<FxBar(0, Num(2))>>)}

\* What one request to a source gives: an error (exception, bad status, no
\* API key) or a payload (possibly empty).
SourceError == [kind |-> "error", frame |-> NoFrame]
SourceOutcomes == {SourceError} \cup {[kind |-> "frame", frame |-> f] : f \in Payloads}

NoCache == [exists |-> FALSE, frame |-> NoFrame]
CacheOf(f) == [exists |-> TRUE, frame |-> f]
CacheFiles == {NoCache} \cup {CacheOf(f) : f \in Payloads}

\* dropna(subset=["date","close","volume"])
DropNaBars(rows) == SelectSeq(rows, LAMBDA b : ~IsNan(b.close))

\* dropna(): a row with any NaN is dropped
DropNaAll(rows) == SelectSeq(rows, LAMBDA b : ~IsNan(b.close) /\ ~IsNan(b.open))

\* The orders sort_values("date") may give: ascending by date, rows of one
\* date in any order (the default sort is not stable).
SortValues(rows) ==
    LET n == Len(rows)
        perms == {p \in [1..n -> 1..n] : \A i, j \in 1..n : i # j => p[i] # p[j]}
    IN  {[i \in 1..n |-> rows[p[i]]] :
            p \in {q \in perms : \A i, j \in 1..n : i < j => rows[q[i]].date <= rows[q[j]].date}}

\* df["date"].max()
LastBarDate(rows) == CHOOSE d \in {rows[i].date : i \in DOMAIN rows} :
                         \A i \in DOMAIN rows : rows[i].date <= d

\* One consulted source and what it gave.
Asked(source, outcome) == [source |-> source, outcome |-> outcome]

\* The result of one fetch call.
Fetched(raised, fromCache, out, file, log) ==
    [raised |-> raised, fromCache |-> fromCache, out |-> out, cache |-> file, log |-> log]

\* fetch_prices of src/src/data_fetch.py: file is the cache file, yfo what
\* yf.download gives if asked, writeOk whether to_csv succeeds.
FetchPrices(file, yfo, writeOk) ==
    IF file.exists /\ file.frame.schema = "ok" /\ file.frame.rows # <<>>
    THEN {Fetched(FALSE, TRUE, Frame("ok", s), file, <<>>) :
             s \in SortValues(DropNaBars(file.frame.rows))}
    ELSE LET log == <<Asked("yfinance", yfo)>>
         IN  IF yfo.kind = "error"
             THEN {Fetched(TRUE, FALSE, NoFrame, file, log)}
             ELSE IF yfo.frame.rows = <<>>
             THEN {Fetched(FALSE, FALSE, NoFrame, file, log)}
             ELSE IF yfo.frame.schema # "ok"
             THEN \* y[c] or dropna on a missing column: KeyError
                  {Fetched(TRUE, FALSE, NoFrame, file, log)}
             ELSE LET y == DropNaBars(yfo.frame.rows)
                      written == IF writeOk THEN CacheOf(Frame("ok", y)) ELSE file
                  IN  {Fetched(FALSE, FALSE, Frame("ok", s), written, log) : s \in SortValues(y)}

\* fetch_prices of src/ml_daily_train_predict.py
FetchPricesDaily(file, yfo, writeOk) ==
    IF file.exists /\ file.frame.schema = "ok" /\ DropNaBars(file.frame.rows) # <<>>
    THEN {Fetched(FALSE, TRUE, Frame("ok", s), file, <<>>) :
             s \in SortValues(DropNaBars(file.frame.rows))}
    ELSE LET log == <<Asked("yfinance", yfo)>>
             y == DropNaBars(yfo.frame.rows)
         IN  IF yfo.kind = "error" \/ yfo.frame.rows = <<>> \/ yfo.frame.schema = "nocol"
             THEN {Fetched(FALSE, FALSE, NoFrame, file, log)}
             ELSE IF yfo.frame.schema = "nodate"
             THEN \* y[keep] without a date column: KeyError, outside any try
                  {Fetched(TRUE, FALSE, NoFrame, file, log)}
             ELSE IF y = <<>>
             THEN {Fetched(FALSE, FALSE, NoFrame, file, log)}
             ELSE {Fetched(FALSE, FALSE, Frame("ok", s),
                           IF writeOk THEN CacheOf(Frame("ok", y)) ELSE file, log) :
                      s \in SortValues(y)}

\* fetch_prices of src/ml_backtest_walkforward.py: the cache is served
\* after dropna() on every column; the download, the column conversion and
\* the cache write are outside any try.
FetchPricesWalkforward(file, yfo, writeOk) ==
    IF file.exists /\ file.frame.schema = "ok" /\ file.frame.rows # <<>>
    THEN {Fetched(FALSE, TRUE, Frame("ok", s), file, <<>>) :
             s \in SortValues(DropNaAll(file.frame.rows))}
    ELSE LET log == <<Asked("yfinance", yfo)>>
         IN  IF yfo.kind = "error" \/ (yfo.frame.rows # <<>> /\ yfo.frame.schema # "ok")
             THEN {Fetched(TRUE, FALSE, NoFrame, file, log)}
             ELSE IF yfo.frame.rows = <<>>
             THEN {Fetched(FALSE, FALSE, NoFrame, file, log)}
             ELSE IF ~writeOk
             THEN {Fetched(TRUE, FALSE, NoFrame, file, log)}
             ELSE LET y == DropNaBars(yfo.frame.rows)
                  IN  {Fetched(FALSE, FALSE, Frame("ok", s), CacheOf(Frame("ok", y)), log) :
                          s \in SortValues(y)}

\* fetch_eodhd_daily: None on an error, an empty payload or a payload
\* without dates; else the payload sorted by date, whatever its columns.
FetchEodhdDaily(po) ==
    IF po.kind = "error" \/ po.frame.rows = <<>> \/ po.frame.schema = "nodate"
    THEN {NoFrame}
    ELSE {Frame(po.frame.schema, s) : s \in SortValues(po.frame.rows)}

\* fetch_yf_daily: None on an error, an empty payload or a missing column.
FetchYfDaily(so) ==
    IF so.kind = "error" \/ so.frame.rows = <<>> \/ so.frame.schema # "ok"
    THEN {NoFrame}
    ELSE {Frame("ok", s) : s \in SortValues(so.frame.rows)}

\* load_cached_or_fetch of plan_and_size.py: po and so are what the primary
\* (EODHD) and the secondary (yfinance) give if asked.
LoadCachedOrFetch(file, po, so, writeOk) ==
    IF /\ file.exists
       /\ file.frame.schema # "nodate"
       /\ file.frame.rows # <<>>
       /\ LastBarDate(file.frame.rows) >= FetchToday - StaleDays
    THEN {Fetched(FALSE, TRUE, file.frame, file, <<>>)}
    ELSE UNION {
           IF p # NoFrame
           THEN {IF writeOk THEN Fetched(FALSE, FALSE, p, CacheOf(p), <<Asked("eodhd", po)>>)
                 ELSE Fetched(TRUE, FALSE, NoFrame, file, <<Asked("eodhd", po)>>)}
           ELSE {IF s = NoFrame
                 THEN Fetched(FALSE, FALSE, NoFrame, file, <<Asked("eodhd", po), Asked("yfinance", so)>>)
                 ELSE IF writeOk
                 THEN Fetched(FALSE, FALSE, s, CacheOf(s), <<Asked("eodhd", po), Asked("yfinance", so)>>)
                 ELSE Fetched(TRUE, FALSE, NoFrame, file, <<Asked("eodhd", po), Asked("yfinance", so)>>) :
                    s \in FetchYfDaily(so)}
           : p \in FetchEodhdDaily(po)}

\* The yfinance fallback shared by fetch_ohlcv and fetch_ohlcv_ax: None on
\* any exception (request, missing column, cache write) or an empty
\* payload, else the payload, written to the cache as it came.
YfFallback(file, so, writeOk, log) ==
    IF so.kind = "error" \/ so.frame.rows = <<>> \/ so.frame.schema # "ok" \/ ~writeOk
    THEN Fetched(FALSE, FALSE, NoFrame, file, log)
    ELSE Fetched(FALSE, FALSE, so.frame, CacheOf(so.frame), log)

\* fetch_ohlcv of trade_plan_full.py
FetchOhlcv(file, po, so, writeOk) ==
    IF file.exists
    THEN \* pd.read_csv(cache_file, parse_dates=["date"]), outside any try
         IF file.frame.schema = "nodate"
         THEN {Fetched(TRUE, TRUE, NoFrame, file, <<>>)}
         ELSE {Fetched(FALSE, TRUE, file.frame, file, <<>>)}
    ELSE LET log1 == <<Asked("eodhd", po)>>
             log2 == <<Asked("eodhd", po), Asked("yfinance", so)>>
         IN  IF po.kind = "error" \/ po.frame.rows = <<>> \/ po.frame.schema = "nodate" \/ ~writeOk
             THEN {YfFallback(file, so, writeOk, log2)}
             ELSE IF po.frame.schema = "ok"
             THEN {Fetched(FALSE, FALSE, po.frame, CacheOf(po.frame), log1)}
             ELSE \* the payload is written, then d[[...]] raises into the bare except
                  {YfFallback(CacheOf(po.frame), so, writeOk, log2)}

\* fetch_ohlcv_ax of trade_plan_universe.py
FetchOhlcvAx(file, po, so, writeOk) ==
    IF file.exists /\ file.frame.schema = "ok" /\ file.frame.rows # <<>>
    THEN {Fetched(FALSE, TRUE, file.frame, file, <<>>)}
    ELSE LET log1 == <<Asked("eodhd", po)>>
             log2 == <<Asked("eodhd", po), Asked("yfinance", so)>>
         IN  IF po.kind = "error" \/ po.frame.rows = <<>> \/ po.frame.schema # "ok" \/ ~writeOk
             THEN {YfFallback(file, so, writeOk, log2)}
             ELSE {Fetched(FALSE, FALSE, po.frame, CacheOf(po.frame), log1)}

FetchVariants == {"data_fetch", "ml_daily", "walkforward", "plan_and_size", "trade_plan_full",
                  "trade_plan_universe"}

\* The result set of one call of the variant's fetch function.
FetchOf(variant, file, po, so, writeOk) ==
    CASE variant = "data_fetch" -> FetchPrices(file, so, writeOk)
      [] variant = "ml_daily" -> FetchPricesDaily(file, so, writeOk)
      [] variant = "walkforward" -> FetchPricesWalkforward(file, so, writeOk)
      [] variant = "plan_and_size" -> LoadCachedOrFetch(file, po, so, writeOk)
      [] variant = "trade_plan_full" -> FetchOhlcv(file, po, so, writeOk)
      [] variant = "trade_plan_universe" -> FetchOhlcvAx(file, po, so, writeOk)

BuildOrder == <<1, 2>>

NoFetch == [ticker |-> 0, before |-> NoCache, raised |-> FALSE, fromCache |-> FALSE,
            out |-> NoFrame, log |-> <<>>]

LastOf(t, before, r) ==
    [ticker |-> t, before |-> before, raised |-> r.raised, fromCache |-> r.fromCache,
     out |-> r.out, log |-> r.log]

FetchIdle ==
    /\ fxVariant = "none"
    /\ fxCache = [t \in Tickers |-> NoCache]
    /\ fxPhase = "idle"
    /\ fxTodo = <<>>
    /\ fxFrames = <<>>
    /\ fxRuns = 0
    /\ fxLast = NoFetch

FetchStart ==
    /\ fxVariant \in FetchVariants
    /\ \E f \in CacheFiles : fxCache = [t \in Tickers |-> IF t = Head(BuildOrder) THEN f ELSE NoCache]
    /\ fxPhase = IF fxVariant = "data_fetch" THEN "loop" ELSE "calls"
    /\ fxTodo = IF fxVariant = "data_fetch" THEN BuildOrder ELSE <<>>
    /\ fxFrames = <<>>
    /\ fxRuns = 0
    /\ fxLast = NoFetch

\* One pass of the loop of build_dataset: fetch the next ticker, then keep
\* or skip its history.  usable is the verdict of the price and volume
\* filters on a history that is long enough.  An exception out of
\* fetch_prices is caught nowhere and ends build_dataset.
BuildDatasetStep(yfo, writeOk, usable) ==
    /\ fxVariant = "data_fetch"
    /\ fxPhase = "loop"
    /\ fxTodo # <<>>
    /\ LET t == Head(fxTodo)
       IN  \E r \in FetchPrices(fxCache[t], yfo, writeOk) :
              /\ fxCache' = [fxCache EXCEPT ![t] = r.cache]
              /\ fxLast' = LastOf(t, fxCache[t], r)
              /\ IF r.raised
                 THEN /\ fxPhase' = "aborted"
                      /\ UNCHANGED <<fxTodo, fxFrames>>
                 ELSE /\ fxTodo' = Tail(fxTodo)
                      /\ fxFrames' = IF Len(r.out.rows) < MinRows \/ ~usable
                                     THEN fxFrames
                                     ELSE Append(fxFrames, [ticker |-> t, rows |-> r.out.rows])
                      /\ UNCHANGED fxPhase
    /\ UNCHANGED <<fxVariant, fxRuns>>
    /\ UNCHANGED <<pnlVars, wfVars, planVars, featVars, getVars, healVars>>

\* The end of build_dataset: SystemExit without frames, else the dataset.
BuildDatasetEnd ==
    /\ fxVariant = "data_fetch"
    /\ fxPhase = "loop"
    /\ fxTodo = <<>>
    /\ fxPhase' = IF fxFrames = <<>> THEN "exit" ELSE "built"
    /\ UNCHANGED <<fxVariant, fxCache, fxTodo, fxFrames, fxRuns, fxLast>>
    /\ UNCHANGED <<pnlVars, wfVars, planVars, featVars, getVars, healVars>>

\* The next run of the pipeline calls build_dataset again.
BuildDatasetAgain ==
    /\ fxVariant = "data_fetch"
    /\ fxPhase \in {"built", "exit", "aborted"}
    /\ fxRuns + 1 < MaxFetchRuns
    /\ fxRuns' = fxRuns + 1
    /\ fxPhase' = "loop"
    /\ fxTodo' = BuildOrder
    /\ fxFrames' = <<>>
    /\ UNCHANGED <<fxVariant, fxCache, fxLast>>
    /\ UNCHANGED <<pnlVars, wfVars, planVars, featVars, getVars, healVars>>

\* One call of the fetch function of the other variants, for one ticker.
FetchCall(po, so, writeOk) ==
    /\ fxVariant \in FetchVariants \ {"data_fetch"}
    /\ fxRuns < MaxFetchRuns
    /\ fxRuns' = fxRuns + 1
    /\ LET t == Head(BuildOrder)
       IN  \E r \in FetchOf(fxVariant, fxCache[t], po, so, writeOk) :
              /\ fxCache' = [fxCache EXCEPT ![t] = r.cache]
              /\ fxLast' = LastOf(t, fxCache[t], r)
    /\ UNCHANGED <<fxVariant, fxPhase, fxTodo, fxFrames>>
    /\ UNCHANGED <<pnlVars, wfVars, planVars, featVars, getVars, healVars>>

FetchNext ==
    \/ \E yfo \in SourceOutcomes, writeOk \in BOOLEAN, usable \in BOOLEAN :
          BuildDatasetStep(yfo, writeOk, usable)
    \/ BuildDatasetEnd
    \/ BuildDatasetAgain
    \/ \E po \in SourceOutcomes, so \in SourceOutcomes, writeOk \in BOOLEAN : FetchCall(po, so, writeOk)

----------------------------------------------------------------------------
(* EODHD client: _get_json of src/eodhd_allin.py.  One call is a start     *)
(* step (key check, cache lookup), then request attempts and sleeps.       *)

MaxGetCalls == 2

\* range(3)
MaxAttempts == 3

\* A loop that makes one more pass.
LoopEndsLate(log) == Len(log) > MaxAttempts

\* for _ in range(3): the loop is over after the third pass.
LoopEnds(log) == Len(log) >= MaxAttempts

\* The payloads a response may carry.
DataVals == {1, 2}

\* The cache file of the request: absent, written within ttl_sec ("fresh")
\* or older ("expired"); data 0 is a file that does not hold whole JSON.
NoJson == [state |-> "absent", data |-> 0]
JsonFiles == {NoJson} \cup [state : {"fresh", "expired"}, data : {0} \cup DataVals]

\* What one attempt meets: status 200 with data that is parsed and cached
\* ("ok"); another status ("status"); an exception of requests.get or of
\* r.json() ("error"); status 200 whose cache write raises ("writefail").
AttemptKinds == {"ok", "status", "error", "writefail"}
Attempt(kind, data) == [kind |-> kind, data |-> data]
Attempts == {Attempt(k, d) : k \in AttemptKinds, d \in DataVals}

GetIdle ==
    /\ gjKey = FALSE
    /\ gjCache = NoJson
    /\ gjPhase = "idle"
    /\ gjLog = <<>>
    /\ gjSleeps = 0
    /\ gjResult = 0
    /\ gjCalls = 0

GetStart ==
    /\ gjKey \in BOOLEAN
    /\ gjCache \in JsonFiles
    /\ gjPhase = "idle"
    /\ gjLog = <<>>
    /\ gjSleeps = 0
    /\ gjResult = 0
    /\ gjCalls = 0

\* Lines 16-28: without a key the call raises; a cache file younger than
\* ttl_sec is loaded and returned (json.load raises on a broken file); else
\* the attempts begin.
GetJsonEnter ==
    /\ gjPhase \in {"idle", "returned", "raised"}
    /\ gjCalls < MaxGetCalls
    /\ gjCalls' = gjCalls + 1
    /\ gjLog' = <<>>
    /\ gjSleeps' = 0
    /\ IF ~gjKey
       THEN gjPhase' = "raised" /\ gjResult' = 0
       ELSE IF gjCache.state = "fresh"
       THEN IF gjCache.data = 0
            THEN gjPhase' = "raised" /\ gjResult' = 0
            ELSE gjPhase' = "returned" /\ gjResult' = gjCache.data
       ELSE gjPhase' = "trying" /\ gjResult' = 0
    /\ UNCHANGED <<gjKey, gjCache>>
    /\ UNCHANGED <<pnlVars, wfVars, planVars, featVars, fetchVars, healVars>>

\* Lines 30-39: one pass of the try block.  open(p, "w") truncates the file
\* before a failing write, or fails itself and leaves the file alone.
GetJsonAttempt(a, truncated) ==
    /\ gjPhase = "trying"
    /\ gjLog' = Append(gjLog, a)
    /\ IF a.kind = "ok"
       THEN /\ gjCache' = [state |-> "fresh", data |-> a.data]
            /\ gjResult' = a.data
            /\ gjPhase' = "returned"
       ELSE /\ gjCache' = IF a.kind = "writefail" /\ truncated
                          THEN [state |-> "fresh", data |-> 0] ELSE gjCache
            /\ gjPhase' = "sleeping"
            /\ UNCHANGED gjResult
    /\ UNCHANGED <<gjKey, gjSleeps, gjCalls>>
    /\ UNCHANGED <<pnlVars, wfVars, planVars, featVars, fetchVars, healVars>>

\* Line 40, then the next pass of the loop or line 41 (raise last_exc).
GetJsonSleep ==
    /\ gjPhase = "sleeping"
    /\ gjSleeps' = gjSleeps + 1
    /\ gjPhase' = IF LoopEnds(gjLog) THEN "raised" ELSE "trying"
    /\ UNCHANGED <<gjKey, gjCache, gjLog, gjResult, gjCalls>>
    /\ UNCHANGED <<pnlVars, wfVars, planVars, featVars, fetchVars, healVars>>

\* Time passes between two calls: the cache file gets older than ttl_sec.
GetCacheExpires ==
    /\ gjPhase \in {"idle", "returned", "raised"}
    /\ gjCache.state = "fresh"
    /\ gjCache' = [gjCache EXCEPT !.state = "expired"]
    /\ UNCHANGED <<gjKey, gjPhase, gjLog, gjSleeps, gjResult, gjCalls>>
    /\ UNCHANGED <<pnlVars, wfVars, planVars, featVars, fetchVars, healVars>>

GetNext ==
    \/ GetJsonEnter
    \/ \E a \in Attempts, truncated \in BOOLEAN : GetJsonAttempt(a, truncated)
    \/ GetJsonSleep
    \/ GetCacheExpires

----------------------------------------------------------------------------
(* Self-healing runner: run_with_self_heal of src/src/agent.py.  One call  *)
(* is the first run (subprocess.call), then, only when that call raised,   *)
(* a captured run (subprocess.run), the fix loop and the re-run.           *)

MaxHealCalls == 2

\* FIX_PATTERNS, by position.
FixPatterns == {1, 2}

\* The project file of a fix pattern: "absent"; "nomatch", the regex finds
\* nothing; "match", the regex matches and the substitution changes the
\* text; "same", the regex matches text that already is the replacement;
\* "locked", the regex matches and the file cannot be written.
FileStates == {"absent", "nomatch", "match", "same", "locked"}

\* The states pattern p's file can be in: only the replacement of the
\* second pattern matches its own regex.
FileStatesOf(p) == IF p = 1 THEN FileStates \ {"same"} ELSE FileStates

\* The file after re.sub has been written.
Patched(p) == IF p = 1 THEN "nomatch" ELSE "same"

\* How a run of the command ends: exit status 0, a non-zero exit status, or
\* an exception of the subprocess call itself.
RunOutcomes == {"exit0", "exit1", "raises"}

\* The status a call returns, 2 standing for an exception that leaves it.
StatusOf(o) == IF o = "exit0" THEN 0 ELSE IF o = "exit1" THEN 1 ELSE 2

HealIdle ==
    /\ hlFiles = [p \in FixPatterns |-> "absent"]
    /\ hlPhase = "idle"
    /\ hlRuns = <<>>
    /\ hlFixed = {}
    /\ hlResult = -1
    /\ hlCalls = 0

HealStart ==
    /\ hlFiles \in {f \in [FixPatterns -> FileStates] : \A p \in FixPatterns : f[p] \in FileStatesOf(p)}
    /\ hlPhase = "idle"
    /\ hlRuns = <<>>
    /\ hlFixed = {}
    /\ hlResult = -1
    /\ hlCalls = 0

\* Lines 29-32: return subprocess.call(cmd), whatever the exit status; only
\* an exception of the call leads on.
HealFirstRun(o) ==
    /\ hlPhase \in {"idle", "done"}
    /\ hlCalls < MaxHealCalls
    /\ hlCalls' = hlCalls + 1
    /\ hlRuns' = <<o>>
    /\ hlFixed' = {}
    /\ IF o = "raises"
       THEN hlPhase' = "captured" /\ hlResult' = -1
       ELSE hlPhase' = "done" /\ hlResult' = StatusOf(o)
    /\ UNCHANGED hlFiles
    /\ UNCHANGED <<pnlVars, wfVars, planVars, featVars, fetchVars, getVars>>

\* Lines 35-42: the captured run; exit status 0 returns 0.
HealCapturedRun(o) ==
    /\ hlPhase = "captured"
    /\ hlRuns' = Append(hlRuns, o)
    /\ IF o = "exit0"
       THEN hlPhase' = "done" /\ hlResult' = 0
       ELSE hlPhase' = "fixing" /\ UNCHANGED hlResult
    /\ UNCHANGED <<hlFiles, hlFixed, hlCalls>>
    /\ UNCHANGED <<pnlVars, wfVars, planVars, featVars, fetchVars, getVars>>

\* Lines 44-59 up to the re-run: every pattern whose file exists and
\* matches is patched; _apply_patch reports a change only when the text
\* changed and was written.  Without a change the call returns 1.
HealApplyFixes ==
    /\ hlPhase = "fixing"
    /\ LET fixed == {p \in FixPatterns : hlFiles[p] = "match"}
       IN  /\ hlFixed' = fixed
           /\ hlFiles' = [p \in FixPatterns |-> IF p \in fixed THEN Patched(p) ELSE hlFiles[p]]
           /\ IF fixed # {}
              THEN hlPhase' = "rerun" /\ UNCHANGED hlResult
              ELSE hlPhase' = "done" /\ hlResult' = 1
    /\ UNCHANGED <<hlRuns, hlCalls>>
    /\ UNCHANGED <<pnlVars, wfVars, planVars, featVars, fetchVars, getVars>>

\* Line 55: return subprocess.call(cmd).
HealRerun(o) ==
    /\ hlPhase = "rerun"
    /\ hlRuns' = Append(hlRuns, o)
    /\ hlPhase' = "done"
    /\ hlResult' = StatusOf(o)
    /\ UNCHANGED <<hlFiles, hlFixed, hlCalls>>
    /\ UNCHANGED <<pnlVars, wfVars, planVars, featVars, fetchVars, getVars>>

HealNext ==
    \/ \E o \in RunOutcomes : HealFirstRun(o)
    \/ \E o \in RunOutcomes : HealCapturedRun(o)
    \/ HealApplyFixes
    \/ \E o \in RunOutcomes : HealRerun(o)

----------------------------------------------------------------------------
(* Specifications: one per component, the other components idle *)

PnlInit == PnlIdle /\ WfIdle /\ PlanIdle /\ FeatIdle /\ FetchIdle /\ GetIdle /\ HealIdle

SpecPnl == PnlInit /\ [][PnlNext]_vars

WfInit == WfStart /\ PnlIdle /\ PlanIdle /\ FeatIdle /\ FetchIdle /\ GetIdle /\ HealIdle

SpecWF == WfInit /\ [][WfNext]_vars

PlanInit == PlanStart /\ PnlIdle /\ WfIdle /\ FeatIdle /\ FetchIdle /\ GetIdle /\ HealIdle

SpecPlan == PlanInit /\ [][PlanNext]_vars

FeatInit == FeatStart /\ PnlIdle /\ WfIdle /\ PlanIdle /\ FetchIdle /\ GetIdle /\ HealIdle

SpecFeat == FeatInit /\ [][FeatNext]_vars

FetchInit == FetchStart /\ PnlIdle /\ WfIdle /\ PlanIdle /\ FeatIdle /\ GetIdle /\ HealIdle

SpecFetch == FetchInit /\ [][FetchNext]_vars

GetInit == GetStart /\ PnlIdle /\ WfIdle /\ PlanIdle /\ FeatIdle /\ FetchIdle /\ HealIdle

SpecGet == GetInit /\ [][GetNext]_vars

HealInit == HealStart /\ PnlIdle /\ WfIdle /\ PlanIdle /\ FeatIdle /\ FetchIdle /\ GetIdle

SpecHeal == HealInit /\ [][HealNext]_vars

----------------------------------------------------------------------------
(* Claims about walk-forward evaluation *)

\* C1: at every walk-forward step with cutoff Di, the model that scores the
\* Di block was fit on a training set containing no row dated after Di.
C1_NoRowAfterCutoff ==
    \A i \in DOMAIN wfTrace :
        \A r \in wfTrace[i].train : r.date <= wfTrace[i].cutoff

\* C3: for two cutoffs Di < Dj processed in one run, the training set used
\* at Di is a subset of the training set used at Dj.
C3_TrainingSetsGrow ==
    \A i, j \in DOMAIN wfTrace :
        wfTrace[i].cutoff < wfTrace[j].cutoff => wfTrace[i].train \subseteq wfTrace[j].train

\* Two cutoffs processed by the re-fitting evaluator, the later one trained
\* on strictly more rows.
C3_Witness ==
    /\ wfVariant = "refit"
    /\ Len(wfTrace) >= 2
    /\ wfTrace[1].cutoff < wfTrace[2].cutoff
    /\ wfTrace[1].train # wfTrace[2].train
    /\ wfTrace[1].train # {}

\* The block order by probability descending, ties by instrument identifier
\* ascending.
CanonicalOrder(T, prob) ==
    CHOOSE o \in SortedByProb(T, prob) :
        \A i, j \in DOMAIN o : (i < j /\ prob[o[i]] = prob[o[j]]) => o[i] < o[j]

\* C4: the picks of a cutoff are the first top_k rows of the block ordered by
\* probability descending, ties broken by instrument identifier ascending.
C4_DeterministicTopK ==
    wfScored.picks = PicksOf(CanonicalOrder(DOMAIN wfScored.probs, wfScored.probs), wfScored.probs)

\* The date a log row's pick is joined to.
JoinDate(variant, data, d) ==
    IF variant = "pipeline" THEN d + 1
    ELSE CHOOSE e \in UniqueDates(data) : e > d /\ \A f \in UniqueDates(data) : f > d => e <= f

\* C9: a selected pick whose instrument has no next-date row is recorded
\* with an undefined return, and its row is in the persisted walk-forward
\* ledger.
C9_JoinMissRetained ==
    wfPhase = "done" =>
        \A i \in DOMAIN wfLogs :
            [ticker |-> wfLogs[i].ticker, date |-> JoinDate(wfVariant, wfData, wfLogs[i].date)] \notin wfData =>
                /\ IsNan(wfLogs[i].ret1d)
                /\ wfLedger.exists
                /\ \E j \in DOMAIN wfLedger.rows :
                       /\ wfLedger.rows[j].date = wfLogs[i].date
                       /\ wfLedger.rows[j].ticker = wfLogs[i].ticker
                       /\ IsNan(wfLedger.rows[j].ret1d)

LedgerDefined == {j \in DOMAIN wfLedger.rows : ~IsNan(wfLedger.rows[j].ret1d)}
LedgerPositive == {j \in LedgerDefined : wfLedger.rows[j].ret1d.v > 0}

\* C10: the printed win rate is the number of ledger rows with ret1d > 0
\* over the number of ledger rows with a defined ret1d (stated where that
\* number is not zero).
C10_WinRateOverDefined ==
    (wfStats.printed /\ LedgerDefined # {}) =>
        wfStats.win = Num((Cardinality(LedgerPositive) * RetScale) \div Cardinality(LedgerDefined))

----------------------------------------------------------------------------
(* Claims about the PnL reconciler *)

\* The ledger rows (indices) with the key of entry e.
LedgerRowsOf(e) == {j \in DOMAIN perf.rows : SameKey(perf.rows[j], e)}

\* The last of the latest call's out_rows with the key of entry e.
LatestFor(e) ==
    CHOOSE k \in DOMAIN lastRows :
        /\ SameKey(lastRows[k], e)
        /\ \A m \in DOMAIN lastRows : SameKey(lastRows[m], e) => m <= k

\* C6: after log_from_plan has been called twice in a row on the same plan
\* file, the ledger holds exactly one entry for every (trade_date,
\* instrument) of that plan, and it is the entry the latest call computed.
C6_UpsertIdempotent ==
    (pnlOutcome = "ok" /\ repeated # "no") =>
        \A i \in DOMAIN lastRows :
            /\ Cardinality(LedgerRowsOf(lastRows[i])) = 1
            /\ \A j \in LedgerRowsOf(lastRows[i]) :
                   ReadPerfRow(perf.rows[j]) = lastRows[LatestFor(lastRows[i])]

\* The same plan reconciled twice, the cache having changed in between, so
\* that the latest computation differs from the earlier one.
C6_Witness == pnlOutcome = "ok" /\ repeated = "changed"

\* C7: in every reachable ledger state the ledger holds at most one entry
\* per (trade_date, instrument).
C7_LedgerKeysUnique ==
    \A i, j \in DOMAIN perf.rows : i # j => ~SameKey(perf.rows[i], perf.rows[j])

\* The ledger rows of trade date d whose return is defined.
DefinedRows(d) == {j \in DOMAIN perf.rows : perf.rows[j].TradeDate = d /\ ~perf.rows[j].Ret.blank}

RECURSIVE SumPnl(_)
SumPnl(js) ==
    IF js = {} THEN 0
    ELSE LET j == CHOOSE x \in js : TRUE IN perf.rows[j].PnL.num + SumPnl(js \ {j})

RECURSIVE SumRet(_)
SumRet(js) ==
    IF js = {} THEN 0
    ELSE LET j == CHOOSE x \in js : TRUE IN perf.rows[j].Ret.num + SumRet(js \ {j})

\* C8: a position whose instrument has no cached close on the exit date gets
\* a ledger entry with undefined (blank, not zero) return and PnL; the entry
\* is a row of the ledger but is counted in none of the summary's figures,
\* which are taken over the trade date's rows with a defined return.
C8_UndefinedExit ==
    pnlOutcome = "ok" =>
        LET d == PlanTradeDate(lastPlan)
            def == DefinedRows(d)
        IN /\ \A i \in DOMAIN lastPlan.rows :
                 IsNan(CloseOn(lastPlan.rows[i].Ticker, PlanExitDate(lastPlan))) =>
                     \E j \in DOMAIN perf.rows :
                         /\ perf.rows[j].TradeDate = d
                         /\ perf.rows[j].Ticker = lastPlan.rows[i].Ticker
                         /\ perf.rows[j].Ret.blank /\ perf.rows[j].PnL.blank
                         /\ perf.rows[j].ExitClose.blank
                         /\ j \notin def
           /\ summary.valid = (def # {})
           /\ summary.trades = Cardinality(def)
           /\ summary.wins = Cardinality({j \in def : perf.rows[j].Ret.num > 0})
           /\ summary.tot = SumPnl(def)
           /\ def # {} => summary.avg = SumRet(def) \div Cardinality(def)

\* A reconciled plan with one position lacking its exit close and another
\* position realized, so that the summary is printed over fewer rows than
\* the ledger holds for the trade date.
C8_Witness ==
    /\ pnlOutcome = "ok"
    /\ summary.valid
    /\ \E i \in DOMAIN lastPlan.rows :
           /\ IsNan(CloseOn(lastPlan.rows[i].Ticker, PlanExitDate(lastPlan)))
           /\ \E j \in DOMAIN perf.rows :
                  /\ perf.rows[j].TradeDate = PlanTradeDate(lastPlan)
                  /\ perf.rows[j].Ticker = lastPlan.rows[i].Ticker
                  /\ perf.rows[j].Ret.blank
    /\ summary.trades < Cardinality({j \in DOMAIN perf.rows : perf.rows[j].TradeDate = PlanTradeDate(lastPlan)})

----------------------------------------------------------------------------
(* Claims about plan generation *)

\* C5: every position of a plan produced by generate_trade_plan with capital
\* C and top_n N commits at most the slot capital, whatever the close:
\* quantity * entry_price <= C / N.
C5_WithinSlotCapital ==
    plOutcome = "ok" =>
        \A i \in DOMAIN plOut : plOut[i].Qty * plOut[i].BuyPrice * plTopN <= plCapital

----------------------------------------------------------------------------
(* Claims about feature engineering *)

FeatureCols == {"date", "open", "high", "low", "close", "volume", "ret1", "ret5", "ma5", "ma10",
                "ma20", "std20", "vol20", "rsi14", "v20"}

SameFeatures(ra, rb) == \A f \in FeatureCols : ra[f] = rb[f]

RowsAt(out, t) == {out[i] : i \in {j \in DOMAIN out : out[j].date = t}}

\* The two series hold the same bars up to and including date d.
AgreeUpTo(d) == \A i \in DOMAIN ftA : ftA[i].date <= d => ftA[i] = ftB[i]

\* The date of the bar that follows date t among the bars add_features
\* keeps (numeric close and volume); 0 when there is none.
NextBarDate(s, t) ==
    LET later == {Clean(s)[i].date : i \in {j \in DOMAIN Clean(s) : Clean(s)[j].date > t}}
    IN  IF later = {} THEN 0 ELSE CHOOSE d \in later : \A e \in later : d <= e

\* C2: featurize leaks nothing.  For every emitted row of date t, a series
\* that agrees with this one up to t gives the same feature values for t if
\* it emits the row, and a series that agrees up to the bar following t
\* emits the same row for t, label included.
C2_NoLeakage ==
    ftPhase = "done" =>
        \A i \in DOMAIN ftOutA :
            LET ra == ftOutA[i]
                t == ra.date
            IN  /\ AgreeUpTo(t) => \A rb \in RowsAt(ftOutB, t) : SameFeatures(ra, rb)
                /\ AgreeUpTo(NextBarDate(ftA, t)) => RowsAt(ftOutB, t) = {ra}

\* Both halves happen in one state: a row whose series differ only after
\* its next bar, and a row emitted by both series with different labels.
C2_Witness ==
    /\ ftPhase = "done"
    /\ \E i \in DOMAIN ftOutA :
          /\ AgreeUpTo(NextBarDate(ftA, ftOutA[i].date))
          /\ \E j \in DOMAIN ftA : ftA[j].date > NextBarDate(ftA, ftOutA[i].date)
                                     /\ ftA[j].close # ftB[j].close
    /\ \E i \in DOMAIN ftOutA :
          /\ AgreeUpTo(ftOutA[i].date)
          /\ \E rb \in RowsAt(ftOutB, ftOutA[i].date) : rb.y # ftOutA[i].y

----------------------------------------------------------------------------
(* Claims about the price series store                                     *)

\* A cache file a call may be served from: it has the required columns and
\* its latest bar is no older than the staleness bound.
CacheUsable(file) ==
    /\ file.exists
    /\ file.frame.schema = "ok"
    /\ file.frame.rows # <<>>
    /\ LastBarDate(file.frame.rows) >= FetchToday - StaleDays

\* C11: a call is served from the cache only if the cached file has the
\* required schema and its most recent bar is within the staleness bound; a
\* stale or schema-invalid cache file is handled like a miss.
C11_CacheServedOnlyIfUsable == fxLast.fromCache => CacheUsable(fxLast.before)


\* A source outcome that counts as a result: a payload with the required
\* columns and at least one row.
ValidResult(o) == o.kind = "frame" /\ o.frame.schema = "ok" /\ o.frame.rows # <<>>

\* The same rows, in any order.
SameRows(a, b) ==
    /\ Len(a) = Len(b)
    /\ \E p \in [DOMAIN a -> DOMAIN b] :
          /\ \A i, j \in DOMAIN a : i # j => p[i] # p[j]
          /\ \A i \in DOMAIN a : a[i] = b[p[i]]

TwoSourceVariants == {"plan_and_size", "trade_plan_full", "trade_plan_universe"}

\* The last call was a miss of a two-source implementation that returned.
TwoSourceMiss ==
    /\ fxVariant \in TwoSourceVariants
    /\ fxLast.ticker # 0
    /\ ~fxLast.fromCache
    /\ ~fxLast.raised

\* C12: on a miss the primary source is asked first and the secondary only
\* when the primary gave no non-empty schema-valid result; the call returns
\* the first such result, and afterwards the cache holds exactly the
\* returned result, never a payload that failed the schema.
C12_FirstValidSourceCached ==
    TwoSourceMiss =>
        LET log == fxLast.log
            file == fxCache[fxLast.ticker]
        IN  /\ log[1].source = "eodhd"
            /\ Len(log) = 2 <=> ~ValidResult(log[1].outcome)
            /\ IF \E i \in DOMAIN log : ValidResult(log[i].outcome)
               THEN /\ fxLast.out.schema = "ok"
                    /\ SameRows(fxLast.out.rows, log[Len(log)].outcome.frame.rows)
                    /\ file = CacheOf(fxLast.out)
               ELSE /\ fxLast.out = NoFrame
                    /\ file = fxLast.before


\* C13: a failure while fetching one instrument (source error, malformed
\* payload, cache write error) never leaves the fetch call as an exception:
\* the call returns, and the dataset build is not ended by it.
C13_FetchFailureContained == ~fxLast.raised /\ fxPhase # "aborted"


\* C14: the bars fetch_prices returns have strictly ascending dates: they
\* are sorted by date and no date occurs twice.
C14_StrictlyAscendingDates ==
    fxVariant \in {"data_fetch", "ml_daily"} /\ ~fxLast.raised =>
        \A i, j \in DOMAIN fxLast.out.rows :
            i < j => fxLast.out.rows[i].date < fxLast.out.rows[j].date

----------------------------------------------------------------------------
(* Claims about the trade plan                                             *)

\* C16: generate_trade_plan, called with an empty feature set (so with no
\* rows at the maximum date), raises in its entry checks, before the scoring
\* call, the sentiment lookup and the sizing, and writes no plan file.
C16_EmptyInputRaisesFirst ==
    plCalls > 0 /\ PlanBlock(plData) = {} =>
        /\ plOutcome = "raised"
        /\ \A d \in PlanDates : ~plFiles[d].exists


\* C17: the blended score (1 - w) * edge + w * sentiment of every position
\* lies in [-1, 1] whenever its edge and its sentiment lie in [-1, 1] and
\* the weight w lies in [0, 1] (Score is in 1/10000).
C17_BlendedScoreBounded ==
    plVariant = "plan" /\ plOutcome = "ok" =>
        \A i \in DOMAIN plOut :
            /\ Edge(plOut[i].MLProb) \in -100..100
            /\ plOut[i].Sentiment \in -100..100
            /\ plSentW \in 0..100
            => plOut[i].Score \in -10000..10000

\* A plan made with the default weight in which a position with edge 1 and
\* sentiment 1 has the score 1, the upper bound.
C17_Witness ==
    /\ plVariant = "plan" /\ plOutcome = "ok"
    /\ plSentW = SentW
    /\ \E i \in DOMAIN plOut :
          /\ plOut[i].Sentiment = 100
          /\ Edge(plOut[i].MLProb) = 100
          /\ plOut[i].Score = 10000


\* C18: the sentiment blended into every position lies in [-1, 1], and is 0
\* for an instrument whose cached sentiment of today is not a usable number.
C18_SentimentClampedOrZero ==
    plVariant = "plan" /\ plOutcome = "ok" =>
        \A i \in DOMAIN plOut :
            /\ plOut[i].Sentiment \in -100..100
            /\ plSent[plOut[i].Ticker] = SentNan => plOut[i].Sentiment = 0


\* C19: every position of a plan of plan.py has Stop < BuyPrice < Target1
\* and BuyPrice < Target2, whatever its positive close and its std20.
C19_StopBelowEntryBelowTargets ==
    plVariant = "plan" /\ plOutcome = "ok" =>
        \A i \in DOMAIN plOut :
            /\ plOut[i].Stop < plOut[i].BuyPrice
            /\ plOut[i].BuyPrice < plOut[i].Target1
            /\ plOut[i].BuyPrice < plOut[i].Target2


\* C20: once the plan file of a date has been written no later step changes
\* it, a second generate_trade_plan run for the same date included.
C20_PersistedPlanImmutable ==
    [][\A d \in PlanDates : plFiles[d].exists => plFiles'[d] = plFiles[d]]_vars

----------------------------------------------------------------------------
(* Further claims about the PnL reconciler *)

LedgerKey(e) == [TradeDate |-> e.TradeDate, Ticker |-> e.Ticker]
LedgerKeys(rows) == {LedgerKey(rows[i]) : i \in DOMAIN rows}

\* The entry of key k: the last row with that key.
EntryOf(rows, k) ==
    rows[CHOOSE i \in DOMAIN rows :
            /\ LedgerKey(rows[i]) = k
            /\ \A j \in DOMAIN rows : LedgerKey(rows[j]) = k => j <= i]

\* The keys of the plan a step reconciles.
PlanKeys(plan) ==
    {[TradeDate |-> PlanTradeDate(plan), Ticker |-> plan.rows[i].Ticker] : i \in DOMAIN plan.rows}

BarsOn(t, d) == IF cache[t].exists THEN {b \in cache[t].bars : b.date = d} ELSE {}

\* C22: the exit price a reconcile gives a position is the cached close
\* dated exactly one calendar day after the plan's reference date; without
\* a bar of that date the exit price and the return are undefined, whatever
\* later bars the cache holds.
C22_ExitOnExactCalendarDay ==
    [][pnlCalls' # pnlCalls /\ pnlOutcome' = "ok" =>
         \A i \in DOMAIN lastRows' :
            LET e == lastRows'[i]
                on == BarsOn(e.Ticker, PlanTradeDate(lastPlan') + 1)
            IN  /\ e.ExitDate = PlanTradeDate(lastPlan') + 1
                /\ (on = {} => IsNan(e.ExitClose) /\ IsNan(e.Ret) /\ IsNan(e.PnL))
                /\ (on # {} => \E b \in on : e.ExitClose = Num(b.close))]_vars

\* A second reconcile that leaves a position undefined for want of a bar on
\* its exit date, although the first reconcile had realized the same
\* instrument on a later bar.
C22_Witness ==
    /\ pnlOutcome = "ok" /\ pnlCalls = 2
    /\ \E i \in DOMAIN lastRows :
          /\ IsNan(lastRows[i].ExitClose)
          /\ BarsOn(lastRows[i].Ticker, lastRows[i].ExitDate) = {}
          /\ \E j \in DOMAIN perf.rows :
                /\ perf.rows[j].Ticker = lastRows[i].Ticker
                /\ perf.rows[j].ExitDate > lastRows[i].ExitDate
                /\ ~perf.rows[j].ExitClose.blank


\* The last row of plan for ticker t.
LastPlanRow(plan, t) ==
    plan.rows[CHOOSE i \in DOMAIN plan.rows :
                 /\ plan.rows[i].Ticker = t
                 /\ \A j \in DOMAIN plan.rows : plan.rows[j].Ticker = t => j <= i]

\* C28: when the ledger holds an entry with an undefined return for a
\* position of a plan and the cache now has the close of the exit date, the
\* next reconcile of that plan leaves exactly one entry for the key, with
\* the realized return and PnL.
C28_UndefinedEntryRealized ==
    [][pnlCalls' # pnlCalls /\ pnlOutcome' = "ok" =>
         \A k \in PlanKeys(lastPlan') \cap LedgerKeys(perf.rows) :
            LET on == BarsOn(k.Ticker, k.TradeDate + 1)
                r == LastPlanRow(lastPlan', k.Ticker)
            IN  EntryOf(perf.rows, k).Ret.blank /\ on # {} =>
                   /\ Cardinality({j \in DOMAIN perf'.rows : LedgerKey(perf'.rows[j]) = k}) = 1
                   /\ \E b \in on :
                         LET e == ReadPerfRow(EntryOf(perf'.rows, k))
                         IN  /\ e.ExitClose = Num(b.close)
                             /\ e.Ret = Num(((b.close * RetScale) \div r.Buy) - RetScale)
                             /\ e.PnL = Num(e.Ret.v * r.Capital)]_vars

\* The same plan reconciled again after its exit close arrived: the latest
\* rows differ from the earlier ones and hold a realized return.
C28_Witness ==
    /\ pnlOutcome = "ok" /\ repeated = "changed"
    /\ \E i \in DOMAIN lastRows : ~IsNan(lastRows[i].Ret)
    /\ \A j \in DOMAIN perf.rows :
          perf.rows[j].TradeDate = PlanTradeDate(lastPlan) => ~perf.rows[j].Ret.blank

----------------------------------------------------------------------------
(* Claims about the EODHD client *)

\* The current call went to the network and has ended.
GetEnded == gjPhase \in {"returned", "raised"} /\ gjLog # <<>>

\* The attempts of the current call end with the first successful one, or
\* are three failures.
FirstSuccessOrThreeFailures ==
    /\ Len(gjLog) <= 3
    /\ gjPhase = "returned" =>
          /\ gjLog[Len(gjLog)].kind = "ok"
          /\ \A i \in 1..(Len(gjLog) - 1) : gjLog[i].kind # "ok"
          /\ gjResult = gjLog[Len(gjLog)].data
          /\ gjCache.data = gjResult
    /\ gjPhase = "raised" =>
          /\ Len(gjLog) = 3
          /\ \A i \in DOMAIN gjLog : gjLog[i].kind # "ok"

\* C23: a call of _get_json makes at most 3 attempts, pauses only between
\* consecutive attempts, returns and caches the first successful response
\* without a further attempt, and gives up after the third failed attempt.
C23_PauseOnlyBetweenAttempts ==
    GetEnded => FirstSuccessOrThreeFailures /\ gjSleeps = Len(gjLog) - 1

\* C23, amended: as above, but the pause follows every failed attempt, the
\* third one included.
C23_PauseAfterEveryFailure ==
    /\ Len(gjLog) <= 3
    /\ GetEnded =>
          /\ FirstSuccessOrThreeFailures
          /\ gjSleeps = Cardinality({i \in DOMAIN gjLog : gjLog[i].kind # "ok"})

\* A call that gave up: three failed attempts and three pauses.
C23_Witness ==
    /\ gjPhase = "raised"
    /\ Len(gjLog) = 3
    /\ gjSleeps = 3

----------------------------------------------------------------------------
(* Claims about the self-healing runner *)

\* C26: when the first run of the command ends with a non-zero exit status
\* and a fix pattern matches its project file, the fix is applied and the
\* command is run again exactly once.
C26_FailedRunFixedAndRerunOnce ==
    (/\ hlPhase = "done"
     /\ hlRuns[1] = "exit1"
     /\ \E p \in FixPatterns : hlFiles[p] = "match" \/ p \in hlFixed)
    => hlFixed # {} /\ Len(hlRuns) = 2

----------------------------------------------------------------------------
(* Further claims about feature engineering *)

\* Every field of every bar of the series is a number.
AllNumeric(s) ==
    \A i \in DOMAIN s :
        LET b == s[i]
        IN  ~IsNan(b.open) /\ ~IsNan(b.high) /\ ~IsNan(b.low) /\ ~IsNan(b.close) /\ ~IsNan(b.volume)

\* out holds one row per bar at positions Win20 + 1 .. Len(s) - 1 of s, in
\* that order, each with the date and the price fields of its bar.
EmitsMiddleBars(out, s) ==
    /\ Len(out) = Max(Len(s) - 1 - Win20, 0)
    /\ \A j \in DOMAIN out :
        LET r == out[j]
            b == s[Win20 + j]
        IN  /\ r["date"] = b.date
            /\ r["open"] = b.open /\ r["high"] = b.high /\ r["low"] = b.low
            /\ r["close"] = b.close /\ r["volume"] = b.volume

----------------------------------------------------------------------------
(* Further claims about walk-forward evaluation *)

\* The cutoffs processed so far are the first of D0..D(n-1), in that order,
\* and all of them once the run is done.
CutoffsInOrder ==
    LET days == DaysOf(wfData)
    IN  /\ Len(wfTrace) = wfStep - 1
        /\ Len(wfTrace) <= Len(days) - 1
        /\ \A i \in DOMAIN wfTrace : wfTrace[i].cutoff = days[i]
        /\ \A i, j \in DOMAIN wfTrace : i < j => wfTrace[i].cutoff < wfTrace[j].cutoff
        /\ wfPhase = "done" => Len(wfTrace) = Len(days) - 1

\* One audit record per processed cutoff, keyed by its date, holding at most
\* top_k picks.
AuditPerCutoff ==
    /\ Len(wfAudit) = Len(wfTrace)
    /\ \A i \in DOMAIN wfAudit :
        /\ wfAudit[i].date = wfTrace[i].cutoff
        /\ Len(wfAudit[i].picks) <= WfTopK

\* C25: walk-forward evaluation processes the cutoffs D0..D(n-1) of the
\* trailing num_days + 1 unique dates one at a time in ascending order, never
\* Dn, and persists exactly one audit record per processed cutoff, keyed by
\* that date and holding the at most top_k picks of that step.
C25_CutoffsAscendingOneAuditEach ==
    wfPhase \in {"loop", "done"} => CutoffsInOrder /\ AuditPerCutoff


\* The date of the close that the label y of the row (t, d) was computed
\* from: next_close = close.shift(-1) is the close of the next bar of t, the
\* next row of t or, for its last row, the bar that dropna() removed for
\* having no next close.
LabelCloseDate(data, t, d) ==
    LET later == {r.date : r \in {q \in data : q.ticker = t /\ q.date > d}}
    IN  IF later = {} THEN MaxDate(data) + 1
        ELSE CHOOSE x \in later : \A z \in later : x <= z

\* C27: at walk-forward cutoff Di of the re-fitting evaluation, no label in
\* the training set is derived from a close dated after Di.
C27_NoLabelFromLaterClose ==
    wfVariant = "refit" =>
        \A i \in DOMAIN wfTrace :
            \A r \in wfTrace[i].train :
                LabelCloseDate(wfData, r.ticker, r.date) <= wfTrace[i].cutoff


\* The latest fetch found no cache file for its instrument, downloaded the
\* bars and left them in the cache.
PopulatedCache ==
    /\ fxLast.ticker # 0
    /\ ~fxLast.before.exists
    /\ ~fxLast.raised
    /\ ~fxLast.fromCache
    /\ fxCache[fxLast.ticker].exists

\* C29: for an instrument with no cache file, the bars returned by the
\* fetch_prices call of ml_backtest_walkforward.py that populates the cache
\* and the bars returned by the immediately following call, served from the
\* cache, are the same rows in the same order (rows of one date in any of
\* the orders the sort may give).
C29_CacheRoundTrip ==
    [][(/\ fxVariant = "walkforward"
        /\ fxRuns' = fxRuns + 1
        /\ PopulatedCache
        /\ fxLast'.ticker = fxLast.ticker
        /\ fxLast'.fromCache)
       => fxLast'.out.rows \in SortValues(fxLast.out.rows)]_vars

----------------------------------------------------------------------------
(* Further claims about plan generation *)

\* The rows of the plan that the call of this step returns.
PlanRowsNext == IF plOutcome' = "ok" THEN {plOut'[i] : i \in DOMAIN plOut'} ELSE {}

\* C30: a sentiment value that the warm-up cached for (instrument, reference
\* date of the plan) is the value generate_trade_plan uses for that
\* instrument, and no live fetch is made for it.
C30_WarmedSentimentUsed ==
    [][(/\ plVariant = "plan"
        /\ plCalls' = plCalls + 1
        /\ plData # {}
        /\ plWarm.date = PlanLastDay(plData))
       => \A t \in Tickers :
            plWarm.vals[t].kind # "absent" =>
                /\ t \in SentMap(plSent)
                /\ \A r \in PlanRowsNext :
                      r.Ticker = t => r.Sentiment = Clamp01(SentNum(Clamp01(plWarm.vals[t])))]_vars

====
